---- MODULE Spec2Model ----
(***************************************************************************)
(* Model of the stride traversal engine (package stride):                  *)
(* WalkLimit and walkLimitWithSymlinkHandling, their worker pool, the      *)
(* bounded task channel, cooperative cancellation and error collection,    *)
(* and the wrappers around them: WalkLimitWithProgress, WalkLimitWithFilter *)
(* and WalkLimitWithOptions.                                               *)
(*                                                                         *)
(* A path is a sequence of entry names below the root (the root is <<>>);  *)
(* names are naturals so that the sorted directory order of godirwalk is   *)
(* the order of the naturals.                                              *)
(***************************************************************************)
EXTENDS Integers, Sequences, FiniteSets, TLC

\* ------------------------------------------------------------------------
\* Bounds
\* ------------------------------------------------------------------------

\* Largest concurrency limit tried (limit ranges over 0..MaxLimit).
MaxLimit == 2

\* Largest number of plain files placed directly in the root of the flat tree.
MaxFiles == 2

\* Number of symbolic links the kernel follows in one path resolution before
\* it gives up with ELOOP (40 on Linux).
MaxHops == 1

\* Largest FindOptions.MaxDepth tried (MaxDepth ranges over 0..MaxDepth).
MaxDepth == 1

\* Number of file system changes that happen while Watch runs.
MaxEvents == 2

\* Largest number of middleware functions registered in WalkOptions.
MaxChain == 2

\* Number of clock ticks that pass between the call of Find and the end of
\* its walk.
MaxClock == 2

\* Largest length of a template handed to formatCommand, in symbols.
MaxLen == 3

\* ------------------------------------------------------------------------
\* File system trees
\* ------------------------------------------------------------------------

\* What os.FileInfo tells about an entry: its kind, its size, the extension
\* of its name, and for a symbolic link the path it points to.
DirNode == [kind |-> "dir", target |-> <<>>, size |-> 0, ext |-> ""]

File(n, x) == [kind |-> "file", target |-> <<>>, size |-> n, ext |-> x]

FileNode == File(10, ".txt")

LinkNode(t) == [kind |-> "link", target |-> t, size |-> 0, ext |-> ""]

\* The root does not exist.
TreeMissing == [p \in {} |-> DirNode]

\* A root directory holding k plain files (k = 0: the empty root).
TreeFlat(k) == [p \in {<<>>} \cup {<<n>> : n \in 1..k} |->
                  IF p = <<>> THEN DirNode ELSE FileNode]

\* /T/a.txt, /T/d1, /T/d1/c.go, /T/e.go: a directory with a sibling after it.
TreeNested == (<<>> :> DirNode) @@ (<<1>> :> FileNode) @@ (<<2>> :> DirNode)
              @@ (<<2, 1>> :> FileNode) @@ (<<3>> :> FileNode)

\* /T/d, /T/d/f, /T/l -> /T/d.
TreeLink == (<<>> :> DirNode) @@ (<<1>> :> DirNode) @@ (<<1, 1>> :> FileNode)
            @@ (<<2>> :> LinkNode(<<1>>))

\* /T/f, /T/link -> /T: the link closes a cycle through its own parent.
TreeLoop == (<<>> :> DirNode) @@ (<<1>> :> FileNode) @@ (<<2>> :> LinkNode(<<>>))

\* /T/f, /T/l1 -> /T/f, /T/l2 -> /T/f: two links to one file.
TreeTwoLinks == (<<>> :> DirNode) @@ (<<1>> :> FileNode)
                @@ (<<2>> :> LinkNode(<<1>>)) @@ (<<3>> :> LinkNode(<<1>>))

\* /T/a.txt (10 bytes), /T/b.go (20 bytes), /T/d1, /T/d1/c.go (30 bytes).
TreeSized == (<<>> :> DirNode) @@ (<<1>> :> File(10, ".txt"))
             @@ (<<2>> :> File(20, ".go")) @@ (<<3>> :> DirNode)
             @@ (<<3, 1>> :> File(30, ".go"))

\* The name that begins with a dot (it sorts before the other names).
HiddenName == 0

\* /T/.git, /T/.git/x.txt, /T/a.txt (10 bytes), /T/d1, /T/d1/.h.txt (20),
\* /T/d1/c.go (30), /T/d1/d2, /T/d1/d2/e.go (40).
TreeHidden == (<<>> :> DirNode) @@ (<<HiddenName>> :> DirNode)
              @@ (<<HiddenName, 1>> :> File(10, ".txt"))
              @@ (<<1>> :> File(10, ".txt")) @@ (<<2>> :> DirNode)
              @@ (<<2, HiddenName>> :> File(20, ".txt"))
              @@ (<<2, 1>> :> File(30, ".go")) @@ (<<2, 2>> :> DirNode)
              @@ (<<2, 2, 1>> :> File(40, ".go"))

\* /T/.x, /T/.x/f.txt, /T/d1, /T/d1/d2, /T/d1/d2/e.txt: three levels below
\* the root.
TreeDeep == (<<>> :> DirNode) @@ (<<HiddenName>> :> DirNode)
            @@ (<<HiddenName, 1>> :> FileNode) @@ (<<1>> :> DirNode)
            @@ (<<1, 1>> :> DirNode) @@ (<<1, 1, 1>> :> FileNode)

\* The trees WalkLimit is run on.
Trees == {TreeMissing, TreeNested, TreeLink} \cup {TreeFlat(k) : k \in 0..MaxFiles}

\* The trees WalkLimitWithOptions is run on.
OptionsTrees == {TreeFlat(MaxFiles), TreeLoop}

\* The trees WalkLimitWithFilter is run on.
FilterTrees == {TreeLink, TreeLoop, TreeTwoLinks, TreeSized}

\* The trees the progress-reporting walks are run on.
ProgressTrees == {TreeSized, TreeFlat(0)}

\* The trees Find is run on.
FindTrees == {TreeHidden}

\* The trees WalkLimitWithOptions is run on with its filters.
OptionsFilterTrees == {TreeDeep, TreeLink}

AllTrees == Trees \cup OptionsTrees \cup FilterTrees \cup ProgressTrees \cup FindTrees
              \cup OptionsFilterTrees

Names == 1..MaxFiles \cup 1..3 \cup {HiddenName}

Parent(p) == SubSeq(p, 1, Len(p) - 1)

\* os.Stat: every component of p, the last one included, is resolved.
RECURSIVE StatPath(_, _)
StatPath(fs, p) ==
    IF p = <<>> THEN <<>>
    ELSE LET q == Append(StatPath(fs, SubSeq(p, 1, Len(p) - 1)), p[Len(p)])
         IN  IF q \in DOMAIN fs /\ fs[q].kind = "link"
             THEN StatPath(fs, fs[q].target)
             ELSE q

\* os.Lstat: the parent is resolved, the last component is not followed.
LstatPath(fs, p) ==
    IF p = <<>> THEN <<>>
    ELSE Append(StatPath(fs, SubSeq(p, 1, Len(p) - 1)), p[Len(p)])

LstatKind(fs, p) == fs[LstatPath(fs, p)].kind

StatKind(fs, p) == fs[StatPath(fs, p)].kind

\* The number of symbolic links the kernel follows while it resolves p.
RECURSIVE Hops(_, _)
Hops(fs, p) ==
    IF p = <<>> THEN 0
    ELSE LET q == LstatPath(fs, p)
         IN  Hops(fs, Parent(p))
               + (IF q \in DOMAIN fs /\ fs[q].kind = "link"
                  THEN 1 + Hops(fs, fs[q].target)
                  ELSE 0)

\* os.Stat(p) fails with ELOOP: too many links are followed on the way.
StatLoops(fs, p) == Hops(fs, p) > MaxHops

\* os.Lstat(p) fails with ELOOP: the last component is not followed.
LstatLoops(fs, p) == p # <<>> /\ Hops(fs, Parent(p)) > MaxHops

\* The i-th smallest element of a non-empty set of naturals, as a sequence.
RECURSIVE SortedSeq(_)
SortedSeq(S) ==
    IF S = {} THEN <<>>
    ELSE LET m == CHOOSE x \in S : \A y \in S : x <= y
         IN  <<m>> \o SortedSeq(S \ {m})

\* godirwalk reads the whole directory and visits the children sorted by name.
SortedChildren(fs, p) ==
    LET real == StatPath(fs, p)
        ns   == {n \in Names : Append(real, n) \in DOMAIN fs}
        s    == SortedSeq(ns)
    IN  [i \in 1..Len(s) |-> Append(p, s[i])]

\* godirwalk.walk after a nil Callback result: it descends into a directory,
\* and into a symbolic link to a directory when FollowSymbolicLinks is set
\* (it finds out with os.Stat, which must succeed).
Descends(fs, followLinks, p) ==
    \/ LstatKind(fs, p) = "dir"
    \/ /\ followLinks
       /\ LstatKind(fs, p) = "link"
       /\ ~StatLoops(fs, p)
       /\ StatKind(fs, p) = "dir"

\* godirwalk.walk after a nil Callback result for a symbolic link, with
\* FollowSymbolicLinks set: os.Stat fails and Walk returns its error.
FollowFails(fs, followLinks, p) ==
    followLinks /\ LstatKind(fs, p) = "link" /\ StatLoops(fs, p)

\* ------------------------------------------------------------------------
\* Error values
\* ------------------------------------------------------------------------

NoPath == <<0>>

\* A sentinel error value (errors.New): compared by identity, which for a
\* package-level sentinel is its message.
Plain(b) == [wrapped |-> FALSE, id |-> 0, path |-> NoPath, base |-> b, list |-> <<>>]

\* The nil error.
Nil == Plain("nil")

\* context.Canceled, which is also what ctx.Err() returns after cancel().
Canceled == Plain("context canceled")

\* The error godirwalk.Walk returns when Lstat of the root fails.
RootError == Plain("no such file or directory")

\* The error os.Lstat returns for an entry that has vanished or cannot be
\* accessed.
LstatError == Plain("lstat failed")

\* The error os.Stat returns when too many links are followed.
LoopError == Plain("too many levels of symbolic links")

\* errors.New("stride: concurrency limit must be greater than zero")
LimitError == Plain("stride: concurrency limit must be greater than zero")

\* fmt.Errorf("path %q: %w", path, err): a fresh *fmt.wrapError around err;
\* n is the allocation's identity (two calls never yield the same pointer).
WrapPath(n, p, b) == [wrapped |-> TRUE, id |-> n, path |-> p, base |-> b, list |-> <<>>]

\* fmt.Errorf("multiple errors: %v", walkErrors): no %w, so nothing is wrapped.
Multiple(n, errs) == [wrapped |-> FALSE, id |-> n, path |-> NoPath, base |-> "multiple errors", list |-> errs]

\* err.Error(): the text does not depend on the pointer identity.
ErrorString(e) == [path |-> e.path, base |-> e.base, list |-> e.list]

\* errors.Is(err, target): err or an error in its Unwrap chain equals target.
ErrorsIs(e, target) ==
    \/ e = target
    \/ e.wrapped /\ Plain(e.base) = target

\* Errors a callback can return besides nil, SkipDir and ctx.Err().
CallbackErrors == {"E1"}

\* A tail that reports every non-empty walkErrors as an aggregate.
CollapseErrorsAggregating(errs) ==
    IF Len(errs) = 0 THEN Nil ELSE Multiple(Len(errs) + 1, errs)

\* The tail of WalkLimit: what is returned for the collected walkErrors.
CollapseErrors(errs) ==
    IF Len(errs) = 0 THEN Nil
    ELSE IF Len(errs) = 1 /\ (ErrorsIs(errs[1], Canceled)
                              \/ ErrorString(errs[1]) = ErrorString(Canceled))
    THEN Canceled
    ELSE IF \A i \in 2..Len(errs) :
              ErrorsIs(errs[i], errs[1]) \/ ErrorString(errs[i]) = ErrorString(errs[1])
    THEN errs[1]
    ELSE Multiple(Len(errs) + 1, errs)

\* ------------------------------------------------------------------------
\* State
\* ------------------------------------------------------------------------

Workers == 1..MaxLimit

NoTask == <<0>>

\* The value of the result variable while the call has not returned.
NoResult == Plain("not returned")

\* The goroutines that invoke walkFn: 0 is the enumerator.
Goroutines == 0..MaxLimit

\* FilterOptions, as far as modelled: MinSize and MaxSize (0: not set),
\* IncludeTypes (extensions), FileTypes (kinds), ExcludeDir (names), and
\* MinDepth and MaxDepth (0: not set).
NoFilter == [minSize |-> 0, maxSize |-> 0, includeTypes |-> {}, fileTypes |-> {},
             excludeDir |-> {}, minDepth |-> 0, maxDepth |-> 0]

\* IncludeTypes: []string{".go"} with MinSize: 25.
GoFilter == [NoFilter EXCEPT !.includeTypes = {".go"}, !.minSize = 25]

\* FileTypes: []string{"file"}.
FilesOnly == [NoFilter EXCEPT !.fileTypes = {"file"}]

Filters == {NoFilter, GoFilter, FilesOnly}

\* MinDepth: lo, MaxDepth: hi.
DepthFilter(lo, hi) == [NoFilter EXCEPT !.minDepth = lo, !.maxDepth = hi]

\* ExcludeDir: the patterns that match the names in names.
ExcludeFilter(names) == [NoFilter EXCEPT !.excludeDir = names]

\* The depth and exclusion filters WalkLimitWithOptions is run with: every
\* pair of depth limits, the exclusion of the hidden directory, and that
\* exclusion below a MinDepth that lets the excluded directory through.
DepthFilters ==
    {DepthFilter(lo, hi) : lo \in 0..MaxDepth, hi \in 0..MaxDepth}
      \cup {ExcludeFilter({HiddenName}),
            [ExcludeFilter({HiddenName}) EXCEPT !.minDepth = 2]}

\* The forms of the root argument: a named directory ("testdata", "/T"),
\* or the current directory ".", below which godirwalk's paths are joined
\* without a separator ("a.txt", "d1/c.go").
Roots == {"T", "."}

\* What was called: the exported function f, with opts.ErrorHandling e, the
\* FilterOptions fo and a progress function or not, over a tree in which
\* os.Lstat fails on the entries b.
Options(f, e, b, fo, pr) ==
    [entry |-> f, errorHandling |-> e, broken |-> b, filter |-> fo, progress |-> pr]

\* A call of Find with FindOptions{IncludeHidden: h, MaxDepth: d,
\* LargerSize: s}: Find runs WalkLimitWithOptions with an empty filter,
\* ErrorHandlingContinue and no progress function. The root argument is a
\* path whose base name does not begin with a dot.
FindCall(h, d, s) ==
    Options("Find", "continue", {}, NoFilter, FALSE)
      @@ [includeHidden |-> h, maxDepth |-> d, largerSize |-> s,
          rootHidden |-> FALSE]

\* A call of WalkLimitWithOptions on root r with the FilterOptions fo and a
\* progress function.
FilterCall(fo, r) ==
    Options("WithOptions", "continue", {}, fo, TRUE) @@ [root |-> r]

\* The zero Stats value.
ZeroStats == [files |-> 0, dirs |-> 0, emptyDirs |-> 0, bytes |-> 0, errors |-> 0]

Counters == DOMAIN ZeroStats

VARIABLES
    fs,            \* the tree under root (fixed during a walk)
    followLinks,   \* godirwalk's FollowSymbolicLinks: FALSE in WalkLimit,
                   \* symlinkHandling == SymlinkFollow in walkLimitWithSymlinkHandling
    limit,         \* the limit argument
    opts,          \* the exported function that was called and its options
    ctxDone,       \* ctx.Err() != nil
    pc,            \* position of the calling goroutine (the enumerator)
    cur,           \* path the godirwalk Callback is running for
    todo,          \* paths godirwalk still has to visit, in visiting order
    walkRet,       \* err returned by godirwalk.Walk
    tasks,         \* buffer of the tasks channel
    closed,        \* close(tasks) has run
    wpc,           \* position of each worker goroutine
    wtask,         \* task held by each worker
    walkErrors,    \* the walkErrors slice
    result,        \* what the call returned
    visitedSymlinks, \* keys of the visitedSymlinks map
    excludedDirs,  \* keys of the excludedDirs map (every value stored is true)
    stats,         \* the Stats counters
    snap,          \* the Stats copy last handed to the progress function
    early,         \* per goroutine: what the wrapper returns without calling
                   \* the user's walkFn ("none": it calls it)
    \* history, read by the properties only
    calls,         \* per path: number of walkFn invocations begun
    ended,         \* paths whose walkFn invocation has returned
    skipped,       \* directories whose walkFn invocation returned SkipDir
    failed,        \* paths whose walkFn invocation returned a non-SkipDir error
    enqueued,      \* paths ever sent on the tasks channel
    discarded,     \* tasks a worker dropped because of cancellation
    startDone,     \* ctx was already cancelled when the call started
    lateCalls,     \* walkFn invocations begun after cancellation
    observed,      \* goroutines (0: enumerator) that saw ctx.Err() != nil
    closes,        \* number of close(tasks) executed
    userCalls,     \* per path: number of invocations of the user's walkFn begun
    passed,        \* entries whose walkFn invocation called the user's walkFn
    watch,         \* the state of a Watch call (NoWatch: none was made)
    mw,            \* the middleware chain of a WalkWithOptions call and the
                   \* walkFn invocation running through it (NoChain: none)
    helper         \* calls of a helper function of the package looked at on
                   \* their own: resolveSymlink, matchFind, formatCommand
                   \* (NoHelper: none)

\* The exported function that was called.
entry == opts.entry

\* opts.ErrorHandling
errorHandling == opts.errorHandling

\* The entries on which os.Lstat fails.
broken == opts.broken

\* The FilterOptions.
filter == opts.filter

\* Whether a progress function was given.
progress == opts.progress

\* FindOptions.IncludeHidden
includeHidden == opts.includeHidden

\* FindOptions.MaxDepth
maxDepth == opts.maxDepth

\* FindOptions.LargerSize
largerSize == opts.largerSize

\* Whether the base name of Find's root argument begins with a dot (".",
\* "..", "./.config").
rootHidden == opts.rootHidden

\* What a walk leaves alone: the arguments of the call, and the state of
\* the entry points that were not called.
args == <<fs, followLinks, limit, opts, watch, mw, helper>>

\* The state of the wrapper around the user's walkFn.
wrap == <<visitedSymlinks, excludedDirs, stats, snap, early, userCalls, passed>>

prog == <<args, ctxDone, pc, cur, todo, walkRet, tasks, closed, wpc, wtask,
          walkErrors, result>>

hist == <<calls, ended, skipped, failed, enqueued, discarded, startDone, lateCalls,
          observed, closes>>

vars == <<prog, hist, wrap>>

\* Every path godirwalk can visit in tree f.
RECURSIVE Reach(_, _, _)
Reach(f, fl, p) ==
    {p} \cup (IF Descends(f, fl, p)
              THEN UNION {Reach(f, fl, SortedChildren(f, p)[i]) :
                            i \in 1..Len(SortedChildren(f, p))}
              ELSE {})

\* Following links changes the enumeration only in a tree that holds a link.
HasLink(f) == \E p \in DOMAIN f : f[p].kind = "link"

Entries(f, fl) == IF <<>> \in DOMAIN f THEN Reach(f, fl, <<>>) ELSE {}

\* The paths a walk over tree f can come across, with or without following
\* links: the history is kept for these.
AllPaths(f) == Entries(f, TRUE) \cup Entries(f, FALSE)

\* Watch was not called.
NoWatch == [mpc |-> "off"]

\* The walk engine before a walk.
FreshWalk ==
    /\ startDone = ctxDone
    /\ pc = "start"
    /\ cur = NoTask
    /\ todo = <<>>
    /\ walkRet = Nil
    /\ tasks = <<>>
    /\ closed = FALSE
    /\ wpc = [w \in Workers |-> "off"]
    /\ wtask = [w \in Workers |-> NoTask]
    /\ walkErrors = <<>>
    /\ result = NoResult
    /\ visitedSymlinks = {}
    /\ stats = ZeroStats
    /\ snap = ZeroStats
    /\ early = [g \in Goroutines |-> "none"]
    /\ calls = [p \in AllPaths(fs) |-> 0]
    /\ ended = {}
    /\ skipped = {}
    /\ failed = {}
    /\ enqueued = {}
    /\ discarded = {}
    /\ lateCalls = 0
    /\ observed = {}
    /\ closes = 0
    /\ userCalls = [p \in AllPaths(fs) |-> 0]
    /\ passed = {}

\* WalkWithOptions was not called.
NoChain == [phase |-> "off"]

\* No helper function is looked at on its own.
NoHelper == [fn |-> "none"]

\* The state in which every exported function starts the walk.
Fresh ==
    /\ watch = NoWatch
    /\ mw = NoChain
    /\ helper = NoHelper
    /\ excludedDirs = {}
    /\ FreshWalk

\* A call of WalkLimit (with followLinks: of walkLimitWithSymlinkHandling
\* with SymlinkFollow and a plain walkFn).
Init ==
    /\ fs \in Trees
    /\ followLinks \in (IF HasLink(fs) THEN BOOLEAN ELSE {FALSE})
    /\ limit \in -1..MaxLimit
    /\ opts = Options("WalkLimit", "continue", {}, NoFilter, FALSE)
    /\ ctxDone \in BOOLEAN
    /\ Fresh

\* A call of WalkLimitWithOptions with NumWorkers = limit and no progress
\* function: any error policy, a tree in which Lstat may fail on one entry,
\* links followed (SymlinkFollow is the zero value of SymlinkHandling). The
\* tree with the cycle is walked with one worker: what is enumerated there
\* is decided by the enumerator alone.
OptionsInit ==
    /\ fs \in OptionsTrees
    /\ followLinks = TRUE
    /\ limit \in (IF HasLink(fs) THEN {1} ELSE 1..MaxLimit)
    /\ opts \in {Options("WithOptions", e, b, NoFilter, FALSE) :
                   e \in (IF HasLink(fs) THEN {"continue"}
                          ELSE {"continue", "stop", "skip"}),
                   b \in {{}} \cup (IF HasLink(fs) THEN {} ELSE {{<<1>>}})}
    /\ ctxDone = FALSE
    /\ Fresh

\* A call of WalkLimitWithFilter.
FilterInit ==
    /\ fs \in FilterTrees
    /\ followLinks = FALSE
    /\ limit \in 1..MaxLimit
    /\ opts \in {Options("WithFilter", "continue", {}, f, FALSE) :
                   f \in (IF fs = TreeSized THEN Filters ELSE {NoFilter})}
    /\ ctxDone = FALSE
    /\ Fresh

\* A call of WalkLimitWithProgress, or of WalkLimitWithOptions with a
\* progress function.
ProgressInit ==
    /\ fs \in ProgressTrees
    /\ followLinks = FALSE
    /\ opts \in {Options(f, "continue", {}, NoFilter, TRUE) :
                   f \in {"WithProgress", "WithOptions"}}
    /\ limit \in (IF entry = "WithProgress" THEN 0..MaxLimit ELSE 1..MaxLimit)
    /\ ctxDone = FALSE
    /\ Fresh

\* A call of WalkLimitWithProgress, or of WalkLimitWithOptions with a
\* progress function, under a context the caller may cancel before or
\* during the walk.
ProgressCancelInit ==
    /\ fs = TreeFlat(MaxFiles)
    /\ followLinks = FALSE
    /\ opts \in {Options(f, "continue", {}, NoFilter, TRUE) :
                   f \in {"WithProgress", "WithOptions"}}
    /\ limit \in (IF entry = "WithProgress" THEN 0..MaxLimit ELSE 1..MaxLimit)
    /\ ctxDone \in BOOLEAN
    /\ Fresh

\* A call of WalkLimitWithOptions with depth limits or excluded directories
\* on the tree with three levels, or with SymlinkIgnore (FollowSymbolicLinks
\* off and no other difference in the code) and no filter on the tree with
\* a link; or a call of WalkLimitWithFilter with an excluded directory. The
\* walk is over before the ticker's first tick.
OptionsFilterInit ==
    /\ fs \in OptionsFilterTrees
    /\ followLinks = FALSE
    /\ limit \in 1..MaxLimit
    /\ opts \in {FilterCall(fo, r) :
                   fo \in (IF fs = TreeDeep THEN DepthFilters ELSE {NoFilter}),
                   r \in (IF fs = TreeDeep THEN Roots ELSE {"T"})}
                \cup (IF fs = TreeDeep
                      THEN {Options("WithFilter", "continue", {},
                                    ExcludeFilter({HiddenName}), FALSE)}
                      ELSE {})
    /\ ctxDone = FALSE
    /\ Fresh

\* The calls of WalkLimitWithFilter a process makes one after the other:
\* with /T/.x excluded, or with no filter.
RepeatCalls ==
    {Options("WithFilter", "continue", {}, f, FALSE) :
       f \in {NoFilter, ExcludeFilter({HiddenName})}}

\* The first call of WalkLimitWithFilter in a process.
RepeatInit ==
    /\ fs = TreeDeep
    /\ followLinks = FALSE
    /\ limit = 1
    /\ opts \in RepeatCalls
    /\ ctxDone = FALSE
    /\ Fresh

\* A call of Find (SymlinkIgnore, NumWorkers defaulted by
\* WalkLimitWithOptions).
FindInit ==
    /\ fs \in FindTrees
    /\ followLinks = FALSE
    /\ limit \in 1..MaxLimit
    /\ opts \in {[FindCall(h, d, s) EXCEPT !.rootHidden = r] :
                   h \in BOOLEAN, d \in 0..MaxDepth, s \in {0, 25},
                   r \in BOOLEAN}
    /\ ctxDone = FALSE
    /\ Fresh

\* ------------------------------------------------------------------------
\* The wrappers around the user's walkFn
\* ------------------------------------------------------------------------

\* The names FilterOptions.FileTypes uses for the kinds.
KindName(k) == IF k = "link" THEN "symlink" ELSE k

\* filePassesFilter for an entry with FileInfo n: the size checks, the
\* extension list and the kind list (the clauses that are not set pass).
FilePassesFilter(n, f) ==
    /\ ~(f.minSize > 0 /\ n.size < f.minSize)
    /\ ~(f.maxSize > 0 /\ n.size > f.maxSize)
    /\ (f.includeTypes # {} => n.ext \in f.includeTypes)
    /\ (f.fileTypes # {} => KindName(n.kind) \in f.fileTypes)

\* A check that excludes nothing.
ShouldSkipDirNever(p, f) == FALSE

\* The loop of shouldSkipDir: the base name of the directory or of one of
\* its ancestors below the root matches an ExcludeDir pattern.
MatchesExclude(p, f) == \E i \in 1..Len(p) : p[i] \in f.excludeDir

\* shouldSkipDir: the cache holds the path, or the loop finds a match (the
\* root's own name matches no pattern).
ShouldSkipDir(p, f) == p \in excludedDirs \/ MatchesExclude(p, f)

\* isCyclicSymlink: the initial path or the real path is already a key.
IsCyclicSymlink(visited, initialPath, realPath) ==
    initialPath \in visited \/ realPath \in visited

\* What a wrapper does with the entry once its own checks are over: the path
\* and FileInfo it hands to the user's walkFn, or what it returns instead.
Deliver(p, n) == [path |-> p, node |-> n, early |-> "none"]

Drop(p, n, ret) == [path |-> p, node |-> n, early |-> ret]

\* The path shouldSkipDir is called with for an entry: the entry itself
\* when it is a directory, its parent otherwise.
SkipDirArg(p, n) == IF n.kind = "dir" THEN p ELSE Parent(p)

\* The checks both filtering wrappers make after the path is settled.
Filtered(p, n) ==
    IF n.kind = "dir"
    THEN IF ShouldSkipDir(SkipDirArg(p, n), filter)
         THEN Drop(p, n, "SkipDir")
         ELSE Deliver(p, n)
    ELSE IF ShouldSkipDir(SkipDirArg(p, n), filter) \/ ~FilePassesFilter(n, filter)
         THEN Drop(p, n, "nil")
         ELSE Deliver(p, n)

\* filteredWalkFn of WalkLimitWithFilter: resolveSymlink(path, SymlinkFollow)
\* replaces a link by its target unless isCyclicSymlink says it was seen.
FilteredWalkFn(p) ==
    LET n == fs[LstatPath(fs, p)]
    IN  IF n.kind # "link" THEN Filtered(p, n)
        ELSE IF IsCyclicSymlink(visitedSymlinks, p, StatPath(fs, p))
             THEN Drop(p, n, "nil")
             ELSE Filtered(StatPath(fs, p), fs[StatPath(fs, p)])

\* resolveSymlink stores the link and its target when it is not cyclic.
VisitedAfter(p) ==
    IF /\ entry = "WithFilter"
       /\ LstatKind(fs, p) = "link"
       /\ ~IsCyclicSymlink(visitedSymlinks, p, StatPath(fs, p))
    THEN visitedSymlinks \cup {p, StatPath(fs, p)}
    ELSE visitedSymlinks

\* strings.Count(filepath.Clean(path), string(os.PathSeparator)), less the
\* separators of the part that lies above the root: under a named root
\* every level below the root adds one separator, under "." the first
\* level adds none.
Separators(p) ==
    IF opts.root = "." /\ p # <<>> THEN Len(p) - 1 ELSE Len(p)

\* pathDepth: the separators of the path less rootDepth.
PathDepth(p) == Separators(p) - Separators(<<>>)

\* The depth filtering of wrappedWalkFn: what it returns for entry p without
\* going on to the other checks ("none": it goes on).
DepthCheck(p, n) ==
    IF filter.minDepth > 0 /\ PathDepth(p) < filter.minDepth THEN "nil"
    ELSE IF filter.maxDepth > 0 /\ PathDepth(p) > filter.maxDepth
    THEN IF n.kind = "dir" THEN "SkipDir" ELSE "nil"
    ELSE "none"

\* wrappedWalkFn of WalkLimitWithOptions, called with a nil err: the depth
\* checks, then the checks on the entry's own (Lstat) FileInfo.
OptionsWalkFn(p) ==
    LET n == fs[LstatPath(fs, p)]
    IN  IF DepthCheck(p, n) # "none" THEN Drop(p, n, DepthCheck(p, n))
        ELSE Filtered(p, n)

\* No call of shouldSkipDir.
NotAsked == <<-1>>

\* The path the wrapper calls shouldSkipDir with for entry p: none when the
\* wrapper returns before it reaches the exclusion check.
Asked(p) ==
    LET n == fs[LstatPath(fs, p)]
    IN  IF entry = "WithFilter"
        THEN IF n.kind # "link" THEN SkipDirArg(p, n)
             ELSE IF IsCyclicSymlink(visitedSymlinks, p, StatPath(fs, p))
             THEN NotAsked
             ELSE SkipDirArg(StatPath(fs, p), fs[StatPath(fs, p)])
        ELSE IF entry \in {"WithOptions", "Find"}
        THEN IF DepthCheck(p, n) # "none" THEN NotAsked ELSE SkipDirArg(p, n)
        ELSE NotAsked

\* shouldSkipDir stores the path it was called with when its loop finds a
\* match: excludedDirs.Store(path, true).
ExcludedAfter(p) ==
    IF Asked(p) # NotAsked /\ MatchesExclude(Asked(p), filter)
    THEN excludedDirs \cup {Asked(p)}
    ELSE excludedDirs

\* A hidden check that finds nothing hidden.
IsHiddenNever(p) == FALSE

\* isHidden(path): the base name begins with a dot. The path godirwalk
\* hands over for the root is the root argument itself.
IsHidden(p) == IF p = <<>> THEN rootHidden ELSE p[Len(p)] = HiddenName

\* matchFind, as far as modelled: the LargerSize criterion.
MatchFind(n) == ~(largerSize > 0 /\ ~(n.size > largerSize))

\* The walkFn Find hands to WalkLimitWithOptions, called with a nil err: the
\* hidden check, the depth check on directories, no delivery of directories,
\* and the handler for the files that match. The user's function is the
\* handler.
FindWalkFn(p, n) ==
    IF ~includeHidden /\ IsHidden(p)
    THEN Drop(p, n, IF n.kind = "dir" THEN "SkipDir" ELSE "nil")
    ELSE IF maxDepth > 0 /\ n.kind = "dir" /\ Len(p) > maxDepth
    THEN Drop(p, n, "SkipDir")
    ELSE IF n.kind = "dir" THEN Drop(p, n, "nil")
    ELSE IF MatchFind(n) THEN Deliver(p, n)
    ELSE Drop(p, n, "nil")

\* The walkFn handed to WalkLimit or walkLimitWithSymlinkHandling, applied
\* to entry p.
WalkFn(p) ==
    IF entry = "WithFilter" THEN FilteredWalkFn(p)
    ELSE IF entry = "WithOptions" THEN OptionsWalkFn(p)
    ELSE IF entry = "Find"
    THEN IF OptionsWalkFn(p).early = "none"
         THEN FindWalkFn(p, OptionsWalkFn(p).node)
         ELSE OptionsWalkFn(p)
    ELSE Deliver(p, fs[LstatPath(fs, p)])

\* hasFiles(path)
HasFiles(p) == SortedChildren(fs, p) # <<>>

\* A counter update that stores the size of the entry instead of adding it.
CountEntryStoringBytes(s, n, hasFiles) ==
    IF n.kind = "dir"
    THEN [s EXCEPT !.dirs = @ + 1, !.emptyDirs = IF hasFiles THEN @ ELSE @ + 1]
    ELSE [s EXCEPT !.files = @ + 1, !.bytes = n.size]

\* The atomic.AddInt64 calls for an entry with FileInfo n.
CountEntry(s, n, hasFiles) ==
    IF n.kind = "dir"
    THEN [s EXCEPT !.dirs = @ + 1, !.emptyDirs = IF hasFiles THEN @ ELSE @ + 1]
    ELSE [s EXCEPT !.files = @ + 1, !.bytes = @ + n.size]

\* Whether the wrapper counts entry p with verdict v: WalkLimitWithProgress
\* counts every entry, WalkLimitWithOptions those it hands to the user's
\* walkFn when a progress function was given.
Counts(v) ==
    \/ entry = "WithProgress"
    \/ entry = "WithOptions" /\ progress /\ v.early = "none"

\* Goroutine g enters walkFn for entry p: the wrapper's part up to the call
\* of the user's walkFn.
WalkFnBegin(g, p) ==
    LET v == WalkFn(p)
    IN  /\ visitedSymlinks' = VisitedAfter(p)
        /\ excludedDirs' = ExcludedAfter(p)
        /\ stats' = IF Counts(v) THEN CountEntry(stats, v.node, HasFiles(p)) ELSE stats
        /\ early' = [early EXCEPT ![g] = v.early]
        /\ userCalls' = IF v.early = "none"
                        THEN [userCalls EXCEPT ![v.path] = @ + 1]
                        ELSE userCalls
        /\ passed' = IF v.early = "none" THEN passed \cup {p} ELSE passed
        /\ snap' = snap

\* What a user's walkFn may return: "nil", "SkipDir", an error of its own,
\* or ctx.Err() once the context is cancelled.
Returns == {"nil", "SkipDir"} \cup CallbackErrors
             \cup (IF ctxDone THEN {Canceled.base} ELSE {})

\* What the walkFn invocation of goroutine g may return.
WalkFnReturns(g) == IF early[g] = "none" THEN Returns ELSE {early[g]}

\* The walkFn invocation of goroutine g returns ret: wrappedWalkFn of
\* WalkLimitWithProgress counts every non-nil result of the user's walkFn.
WalkFnEnd(g, ret) ==
    /\ stats' = IF entry = "WithProgress" /\ ret # "nil"
                THEN [stats EXCEPT !.errors = @ + 1]
                ELSE stats
    /\ early' = [early EXCEPT ![g] = "none"]
    /\ UNCHANGED <<visitedSymlinks, excludedDirs, snap, userCalls, passed>>

\* Whether Stats copies are handed to a progress function.
Reports == entry = "WithProgress" \/ (entry = "WithOptions" /\ progress)

\* A wrapper that makes the final progress update only when the walk
\* returned nil.
FinalReportOnSuccess == snap' = IF Reports /\ result' = Nil THEN stats ELSE snap

\* A wrapper that returns without the final progress update.
FinalReportForgotten == snap' = snap

\* The final progress update: the deferred call in WalkLimitWithProgress,
\* the call after the walk in WalkLimitWithOptions.
FinalReport == snap' = IF Reports THEN stats ELSE snap

\* The ticker goroutine hands a copy of the counters to the progress
\* function (progressFn(*stats); the copy is taken in one step).
Tick ==
    /\ Reports
    /\ pc \notin {"start", "done"}
    /\ snap' = stats
    /\ UNCHANGED <<visitedSymlinks, excludedDirs, stats, early, userCalls, passed>>
    /\ UNCHANGED <<prog, hist>>

\* ------------------------------------------------------------------------
\* The enumerator: the goroutine that called WalkLimit
\* ------------------------------------------------------------------------

\* godirwalk moves on to the next pending path, or Walk returns nil.
Advance(rest) ==
    IF rest = <<>>
    THEN /\ pc' = "walked"
         /\ cur' = NoTask
         /\ todo' = <<>>
         /\ walkRet' = Nil
    ELSE /\ pc' = "check"
         /\ cur' = Head(rest)
         /\ todo' = Tail(rest)
         /\ walkRet' = walkRet

\* godirwalk stops at the first error its Callback returns (the default
\* ErrorCallback answers Halt) and Walk returns that error.
Halt(err) ==
    /\ pc' = "walked"
    /\ cur' = NoTask
    /\ todo' = <<>>
    /\ walkRet' = err

\* What godirwalk visits after the Callback for p returned nil.
AfterNil(p) ==
    IF Descends(fs, followLinks, p) THEN SortedChildren(fs, p) \o todo ELSE todo

\* A directory branch that drops the SkipDir result instead of returning it.
AfterDirIgnoringSkip(ret, p) == AfterNil(p)

\* What godirwalk visits after walkFn returned ret for directory p: the
\* Callback hands SkipDir on and godirwalk leaves out the directory's children;
\* for every other result the Callback returns nil.
AfterDir(ret, p) == IF ret = "SkipDir" THEN todo ELSE AfterNil(p)

\* A collection that does not set SkipDir apart.
CollectedSkipDirToo(ret) == ret # "nil"

\* Whether a walkFn result is appended to walkErrors.
Collected(ret) == ret # "nil" /\ ret # "SkipDir"

\* A Callback without the entry check.
EnumSeesCancelNever == FALSE

\* The Callback's entry check: ctx.Err() != nil.
EnumSeesCancel == ctxDone

\* A worker without the check.
WorkerSeesCancelNever == FALSE

\* The worker's check before it calls walkFn: ctx.Err() != nil.
WorkerSeesCancel == ctxDone

\* A channel with room for one task more than limit.
HasRoomForOneMore == Len(tasks) <= limit

\* tasks = make(chan walkArgs, limit): a send proceeds while the buffer has room.
HasRoom == Len(tasks) < limit

\* A limit check that lets zero through.
LimitInvalidNegative == limit < 0

\* if limit < 1: the call fails with the configuration error.
LimitInvalid == limit < 1

\* WalkLimit up to the call of godirwalk.Walk: the limit check, the worker
\* pool, and Walk's Lstat (Stat when following links) of the root.
Start ==
    /\ pc = "start"
    /\ IF LimitInvalid
       THEN /\ pc' = "done"
            /\ result' = LimitError
            /\ FinalReport
            /\ UNCHANGED <<cur, todo, walkRet, wpc>>
       ELSE /\ wpc' = [w \in Workers |-> IF w <= limit THEN "recv" ELSE "off"]
            /\ result' = result
            /\ snap' = snap
            /\ IF <<>> \in DOMAIN fs
               THEN /\ pc' = "check"
                    /\ cur' = <<>>
                    /\ UNCHANGED <<todo, walkRet>>
               ELSE Halt(RootError)
    /\ UNCHANGED <<args, ctxDone, tasks, closed, wtask, walkErrors>>
    /\ UNCHANGED hist
    /\ UNCHANGED <<visitedSymlinks, excludedDirs, stats, early, userCalls, passed>>

\* os.Lstat(path) in the Callback fails.
LstatFails(p) == p \in broken \/ LstatLoops(fs, p)

\* Callback: if ctx.Err() != nil return context.Canceled; otherwise Lstat,
\* whose error is returned to godirwalk, and the branch on fileInfo.IsDir().
EnumCheck ==
    /\ pc = "check"
    /\ IF EnumSeesCancel
       THEN /\ Halt(Canceled)
            /\ observed' = observed \cup {0}
       ELSE IF LstatFails(cur)
       THEN /\ Halt(LstatError)
            /\ observed' = observed
       ELSE /\ pc' = IF LstatKind(fs, cur) = "dir" THEN "dirCall" ELSE "send"
            /\ UNCHANGED <<cur, todo, walkRet, observed>>
    /\ UNCHANGED <<args, ctxDone, tasks, closed, wpc, wtask,
                   walkErrors, result>>
    /\ UNCHANGED <<calls, ended, skipped, failed, enqueued, discarded, startDone,
                   lateCalls, closes>>
    /\ UNCHANGED wrap

\* The directory branch enters walkFn(path, fileInfo, nil).
EnumDirBegin ==
    /\ pc = "dirCall"
    /\ pc' = "dirRun"
    /\ calls' = [calls EXCEPT ![cur] = @ + 1]
    /\ lateCalls' = IF ctxDone THEN lateCalls + 1 ELSE lateCalls
    /\ WalkFnBegin(0, cur)
    /\ UNCHANGED <<args, ctxDone, cur, todo, walkRet, tasks, closed,
                   wpc, wtask, walkErrors, result>>
    /\ UNCHANGED <<ended, skipped, failed, enqueued, discarded, startDone, observed,
                   closes>>

\* walkFn returns on the enumerator: SkipDir is passed to godirwalk, any other
\* error is collected and the Callback returns nil.
EnumDirReturn ==
    /\ pc = "dirRun"
    /\ \E ret \in WalkFnReturns(0) :
         /\ WalkFnEnd(0, ret)
         /\ ended' = ended \cup {cur}
         /\ skipped' = IF ret = "SkipDir" THEN skipped \cup {cur} ELSE skipped
         /\ Advance(AfterDir(ret, cur))
         /\ IF Collected(ret)
            THEN /\ walkErrors' = Append(walkErrors,
                                    WrapPath(Len(walkErrors) + 1, cur, ret))
                 /\ failed' = failed \cup {cur}
            ELSE UNCHANGED <<walkErrors, failed>>
    /\ UNCHANGED <<args, ctxDone, tasks, closed, wpc, wtask, result>>
    /\ UNCHANGED <<calls, enqueued, discarded, startDone, lateCalls, observed, closes>>

\* select, case tasks <- walkArgs{...}: possible while the buffer has room.
EnumSend ==
    /\ pc = "send"
    /\ HasRoom
    /\ tasks' = Append(tasks, cur)
    /\ enqueued' = enqueued \cup {cur}
    /\ IF FollowFails(fs, followLinks, cur)
       THEN Halt(LoopError)
       ELSE Advance(AfterNil(cur))
    /\ UNCHANGED <<args, ctxDone, closed, wpc, wtask, walkErrors,
                   result>>
    /\ UNCHANGED <<calls, ended, skipped, failed, discarded, startDone, lateCalls,
                   observed, closes>>
    /\ UNCHANGED wrap

\* select, case <-ctx.Done(): return context.Canceled.
EnumSendCanceled ==
    /\ pc = "send"
    /\ ctxDone
    /\ Halt(Canceled)
    /\ observed' = observed \cup {0}
    /\ UNCHANGED <<args, ctxDone, tasks, closed, wpc, wtask,
                   walkErrors, result>>
    /\ UNCHANGED <<calls, ended, skipped, failed, enqueued, discarded, startDone,
                   lateCalls, closes>>
    /\ UNCHANGED wrap

\* After godirwalk.Walk: a non-nil, non-SkipDir err is appended to walkErrors.
EnumWalked ==
    /\ pc = "walked"
    /\ pc' = "close"
    /\ walkErrors' = IF walkRet # Nil THEN Append(walkErrors, walkRet) ELSE walkErrors
    /\ UNCHANGED <<args, ctxDone, cur, todo, walkRet, tasks, closed,
                   wpc, wtask, result>>
    /\ UNCHANGED hist
    /\ UNCHANGED wrap

\* A WalkLimit that goes on to workerWg.Wait() without close(tasks).
EnumCloseForgotten ==
    /\ pc = "close"
    /\ pc' = "wait"
    /\ UNCHANGED <<args, ctxDone, cur, todo, walkRet, tasks, closed,
                   wpc, wtask, walkErrors, result>>
    /\ UNCHANGED hist
    /\ UNCHANGED wrap

\* close(tasks)
EnumClose ==
    /\ pc = "close"
    /\ pc' = "wait"
    /\ closed' = TRUE
    /\ closes' = closes + 1
    /\ UNCHANGED <<args, ctxDone, cur, todo, walkRet, tasks, wpc,
                   wtask, walkErrors, result>>
    /\ UNCHANGED <<calls, ended, skipped, failed, enqueued, discarded, startDone,
                   lateCalls, observed>>
    /\ UNCHANGED wrap

\* A WalkLimit that returns without workerWg.Wait().
WorkersExitedNoWait == TRUE

\* workerWg.Wait() returns once every worker has exited.
WorkersExited == \A w \in Workers : wpc[w] \in {"off", "exit"}

\* workerWg.Wait(), then the error collapse and the return.
EnumReturn ==
    /\ pc = "wait"
    /\ WorkersExited
    /\ pc' = "done"
    /\ result' = CollapseErrors(walkErrors)
    /\ FinalReport
    /\ UNCHANGED <<args, ctxDone, cur, todo, walkRet, tasks, closed,
                   wpc, wtask, walkErrors>>
    /\ UNCHANGED hist
    /\ UNCHANGED <<visitedSymlinks, excludedDirs, stats, early, userCalls, passed>>

\* ------------------------------------------------------------------------
\* The workers
\* ------------------------------------------------------------------------

\* for task := range tasks: a task is received.
WorkerRecv(w) ==
    /\ wpc[w] = "recv"
    /\ tasks # <<>>
    /\ wtask' = [wtask EXCEPT ![w] = Head(tasks)]
    /\ tasks' = Tail(tasks)
    /\ wpc' = [wpc EXCEPT ![w] = "check"]
    /\ UNCHANGED <<args, ctxDone, pc, cur, todo, walkRet, closed,
                   walkErrors, result>>
    /\ UNCHANGED hist
    /\ UNCHANGED wrap

\* A worker loop that ends as soon as it finds the channel empty.
RangeEndsOnEmpty == tasks = <<>>

\* for task := range tasks ends once the channel is closed and drained.
RangeEnds == tasks = <<>> /\ closed

\* for task := range tasks: the loop ends and the worker returns.
WorkerExit(w) ==
    /\ wpc[w] = "recv"
    /\ RangeEnds
    /\ wpc' = [wpc EXCEPT ![w] = "exit"]
    /\ UNCHANGED <<args, ctxDone, pc, cur, todo, walkRet, tasks,
                   closed, wtask, walkErrors, result>>
    /\ UNCHANGED hist
    /\ UNCHANGED wrap

\* if ctx.Err() != nil { tasksWg.Done(); continue }
WorkerCheck(w) ==
    /\ wpc[w] = "check"
    /\ IF WorkerSeesCancel
       THEN /\ wpc' = [wpc EXCEPT ![w] = "recv"]
            /\ wtask' = [wtask EXCEPT ![w] = NoTask]
            /\ discarded' = discarded \cup {wtask[w]}
            /\ observed' = observed \cup {w}
       ELSE /\ wpc' = [wpc EXCEPT ![w] = "call"]
            /\ UNCHANGED <<wtask, discarded, observed>>
    /\ UNCHANGED <<args, ctxDone, pc, cur, todo, walkRet, tasks,
                   closed, walkErrors, result>>
    /\ UNCHANGED <<calls, ended, skipped, failed, enqueued, startDone, lateCalls,
                   closes>>
    /\ UNCHANGED wrap

\* The worker enters walkFn(task.path, task.info, task.err).
WorkerBegin(w) ==
    /\ wpc[w] = "call"
    /\ wpc' = [wpc EXCEPT ![w] = "run"]
    /\ calls' = [calls EXCEPT ![wtask[w]] = @ + 1]
    /\ lateCalls' = IF ctxDone THEN lateCalls + 1 ELSE lateCalls
    /\ WalkFnBegin(w, wtask[w])
    /\ UNCHANGED <<args, ctxDone, pc, cur, todo, walkRet, tasks,
                   closed, wtask, walkErrors, result>>
    /\ UNCHANGED <<ended, skipped, failed, enqueued, discarded, startDone, observed,
                   closes>>

\* walkFn returns on a worker: a non-SkipDir error is wrapped with the path
\* and appended under errLock; then tasksWg.Done() and the next iteration.
WorkerReturn(w) ==
    /\ wpc[w] = "run"
    /\ \E ret \in WalkFnReturns(w) :
         /\ WalkFnEnd(w, ret)
         /\ IF Collected(ret)
            THEN /\ walkErrors' = Append(walkErrors,
                                    WrapPath(Len(walkErrors) + 1, wtask[w], ret))
                 /\ failed' = failed \cup {wtask[w]}
            ELSE UNCHANGED <<walkErrors, failed>>
    /\ ended' = ended \cup {wtask[w]}
    /\ wpc' = [wpc EXCEPT ![w] = "recv"]
    /\ wtask' = [wtask EXCEPT ![w] = NoTask]
    /\ UNCHANGED <<args, ctxDone, pc, cur, todo, walkRet, tasks,
                   closed, result>>
    /\ UNCHANGED <<calls, skipped, enqueued, discarded, startDone, lateCalls, observed,
                   closes>>

\* ------------------------------------------------------------------------
\* The caller's context
\* ------------------------------------------------------------------------

\* cancel() is called while the walk is running.
Cancel ==
    /\ ~ctxDone
    /\ pc \notin {"start", "done"}
    /\ ctxDone' = TRUE
    /\ UNCHANGED <<args, pc, cur, todo, walkRet, tasks, closed, wpc,
                   wtask, walkErrors, result>>
    /\ UNCHANGED hist
    /\ UNCHANGED wrap

\* ------------------------------------------------------------------------
\* Watch
\* ------------------------------------------------------------------------

\* The entries that can exist below the watched root /W: /W/.h.go, /W/a.go,
\* /W/sub and /W/sub/b.go.
WatchPaths == {<<HiddenName>>, <<1>>, <<2>>, <<2, 1>>}

\* os.Stat(name).IsDir() for a name that exists.
IsDirPath(p) == p \in {<<>>, <<2>>}

\* filepath.Match("*.go", filepath.Base(name))
MatchesPattern(p) == p \in {<<HiddenName>>, <<1>>, <<2, 1>>}

\* filepath.Match("a*", filepath.Base(name))
MatchesIgnore(p) == p = <<1>>

\* fsnotify.Op: the bits of an event.
Ops == {"Create", "Write", "Remove", "Rename", "Chmod"}

\* The Op values the file system changes come with: one bit, or Create and
\* Write at once for a file that is created and written.
ChangeOps == {{o} : o \in Ops} \cup {{"Create", "Write"}}

WatchEvents == {"create", "modify", "delete", "rename", "chmod"}

\* The switch that fills eventMap.
OpOf(e) ==
    CASE e = "create" -> "Create"
      [] e = "modify" -> "Write"
      [] e = "delete" -> "Remove"
      [] e = "rename" -> "Rename"
      [] e = "chmod"  -> "Chmod"

\* eventMap: the requested events, all five when none is named.
EventMap(events) == IF events # {} THEN {OpOf(e) : e \in events} ELSE Ops

\* An event goroutine that does not look at eventMap.
EventTypeUnfiltered(op, m) ==
    IF "Create" \in op THEN "create"
    ELSE IF "Write" \in op THEN "modify"
    ELSE IF "Remove" \in op THEN "delete"
    ELSE IF "Rename" \in op THEN "rename"
    ELSE IF "Chmod" \in op THEN "chmod"
    ELSE "none"

\* The if-else chain of the event goroutine: the eventType of an event with
\* bits op under eventMap m ("none": shouldProcess stays false).
EventType(op, m) ==
    IF "Create" \in op /\ "Create" \in m THEN "create"
    ELSE IF "Write" \in op /\ "Write" \in m THEN "modify"
    ELSE IF "Remove" \in op /\ "Remove" \in m THEN "delete"
    ELSE IF "Rename" \in op /\ "Rename" \in m THEN "rename"
    ELSE IF "Chmod" \in op /\ "Chmod" \in m THEN "chmod"
    ELSE "none"

\* WatchOptions: Events, Recursive, Pattern ("*.go" or none), IgnorePattern
\* ("a*" or none), IncludeHidden, Timeout (set or 0).
WatchOptions(ev, rec, pat, ign, hid, to) ==
    [events |-> ev, recursive |-> rec, pattern |-> pat, ignore |-> ign,
     includeHidden |-> hid, timeout |-> to]

\* The Events settings tried.
WatchEventSets == {{}, {"modify"}, {"create", "delete"}}

\* The options tried: every Events setting with and without Recursive and
\* with and without Pattern, and the default options with IgnorePattern,
\* with IncludeHidden and with a Timeout.
WatchConfigs ==
    {WatchOptions(ev, rec, FALSE, FALSE, FALSE, FALSE) :
        ev \in WatchEventSets, rec \in BOOLEAN}
    \cup {WatchOptions(ev, FALSE, TRUE, FALSE, FALSE, FALSE) : ev \in WatchEventSets}
    \cup {WatchOptions({}, FALSE, FALSE, TRUE, FALSE, FALSE),
          WatchOptions({}, FALSE, FALSE, FALSE, TRUE, FALSE),
          WatchOptions({}, FALSE, FALSE, FALSE, FALSE, TRUE)}

NoMsg == [path |-> NoPath, kind |-> "none", op |-> {}]

\* Watch is called with options c while the entries e exist.
WatchCalled(c, e) ==
    [cfg |-> c, exists |-> e, watched |-> {}, queue |-> <<>>, left |-> MaxEvents,
     mpc |-> "setup", gpc |-> "off", msg |-> NoMsg, ret |-> "none",
     timedOut |-> FALSE,
     \* history, read by the properties only
     handled |-> {},   \* the messages handed to the handler
     seen |-> {}]      \* the directories still there whose Create event the
                       \* event goroutine has received

\* A call of Watch: the root is missing, or holds a.go, or a.go and sub.
WatchInit ==
    /\ fs = TreeFlat(0)
    /\ followLinks = FALSE
    /\ limit = 1
    /\ opts = Options("Watch", "continue", {}, NoFilter, FALSE)
    /\ ctxDone \in BOOLEAN
    /\ FreshWalk
    /\ excludedDirs = {}
    /\ helper = NoHelper
    /\ mw = NoChain
    /\ watch \in {WatchCalled(c, e) :
                    c \in WatchConfigs,
                    e \in {{}, {<<>>, <<1>>}, {<<>>, <<1>>, <<2>>}}}

\* The walk engine.
engine == <<fs, followLinks, limit, opts, pc, cur, todo, walkRet, tasks, closed,
            wpc, wtask, walkErrors, result, hist, wrap>>

\* What Watch leaves alone.
walk == <<engine, mw, helper>>

\* The directories filepath.Walk adds in recursive mode: hidden ones and
\* what lies below them are skipped unless IncludeHidden.
WalkedDirs(c, e) ==
    {d \in e : /\ IsDirPath(d)
               /\ c.includeHidden \/ \A i \in 1..Len(d) : d[i] # HiddenName}

\* Watch up to the start of the event goroutine: watcher.Add(root), whose
\* error is returned, and in recursive mode the walk that adds the
\* directories below the root.
WatchSetup ==
    /\ watch.mpc = "setup"
    /\ watch' = IF <<>> \notin watch.exists
                THEN [watch EXCEPT !.mpc = "returned", !.ret = "error"]
                ELSE [watch EXCEPT
                        !.watched = {<<>>} \cup
                                    (IF watch.cfg.recursive
                                     THEN WalkedDirs(watch.cfg, watch.exists)
                                     ELSE {}),
                        !.gpc = "select",
                        !.mpc = "wait"]
    /\ UNCHANGED <<ctxDone, walk>>

\* ctx.Done() of the context Watch works with is closed: the caller has
\* cancelled, or the deadline of context.WithTimeout has passed.
WatchCtxDone == ctxDone \/ watch.timedOut

\* <-ctx.Done() in Watch
WatchDone ==
    /\ watch.mpc = "wait"
    /\ WatchCtxDone
    /\ watch' = [watch EXCEPT !.mpc = "join"]
    /\ UNCHANGED <<ctxDone, walk>>

\* A Watch that returns without wg.Wait().
GoroutineExitedNoWait == TRUE

\* wg.Wait() returns once the event goroutine has returned.
GoroutineExited == watch.gpc = "exit"

\* wg.Wait() and return nil.
WatchJoin ==
    /\ watch.mpc = "join"
    /\ GoroutineExited
    /\ watch' = [watch EXCEPT !.mpc = "returned", !.ret = "nil"]
    /\ UNCHANGED <<ctxDone, walk>>

\* The checks between shouldProcess and the handler: Pattern, IgnorePattern
\* and the hidden check on the base name.
WatchPasses(c, p) ==
    /\ c.pattern => MatchesPattern(p)
    /\ c.ignore => ~MatchesIgnore(p)
    /\ c.includeHidden \/ ~IsHidden(p)

\* case event := <-watcher.Events, up to the call of the handler with the
\* message or to the next iteration: the event type, os.Stat (whose error
\* is reported to the handler as an error result, after which the loop
\* continues), watcher.Add for a created directory in recursive mode, and
\* the checks.
WatchRecv ==
    /\ watch.gpc = "select"
    /\ watch.queue # <<>>
    /\ LET ev     == Head(watch.queue)
           c      == watch.cfg
           kind   == EventType(ev.op, EventMap(c.events))
           statOk == ev.name \in watch.exists
           isDir  == statOk /\ IsDirPath(ev.name)
           m      == [path |-> ev.name, kind |-> kind, op |-> ev.op]
           w1     == [watch EXCEPT
                        !.queue = Tail(@),
                        !.seen = IF "Create" \in ev.op /\ isDir
                                 THEN @ \cup {ev.name} ELSE @]
           w2     == IF c.recursive /\ isDir /\ "Create" \in ev.op
                     THEN [w1 EXCEPT !.watched = @ \cup {ev.name}]
                     ELSE w1
       IN  watch' =
             IF kind = "none" THEN w1
             ELSE IF "Remove" \notin ev.op /\ ~statOk
             THEN w1
             ELSE IF ~WatchPasses(c, ev.name)
             THEN (IF "Remove" \in ev.op THEN w1 ELSE w2)
             ELSE [(IF "Remove" \in ev.op THEN w1 ELSE w2) EXCEPT
                     !.gpc = "handler", !.msg = m, !.handled = @ \cup {m}]
    /\ UNCHANGED <<ctxDone, walk>>

\* The handler returns (an error it returns is reported to the handler in
\* turn, in the same iteration).
WatchHandlerReturn ==
    /\ watch.gpc = "handler"
    /\ watch' = [watch EXCEPT !.gpc = "select", !.msg = NoMsg]
    /\ UNCHANGED <<ctxDone, walk>>

\* case <-ctx.Done(): return
WatchGoExit ==
    /\ watch.gpc = "select"
    /\ WatchCtxDone
    /\ watch' = [watch EXCEPT !.gpc = "exit"]
    /\ UNCHANGED <<ctxDone, walk>>

\* Whether change op can happen to p while the entries e exist.
CanChange(e, p, op) ==
    IF "Create" \in op
    THEN p \notin e /\ Parent(p) \in e /\ ("Write" \in op => ~IsDirPath(p))
    ELSE /\ p \in e
         /\ op = {"Write"} => ~IsDirPath(p)
         /\ op \in {{"Remove"}, {"Rename"}} => \A q \in e : Parent(q) # p \/ q = <<>>

\* The entries that exist after the change.
AfterChange(e, p, op) ==
    IF "Create" \in op THEN e \cup {p}
    ELSE IF op \in {{"Remove"}, {"Rename"}} THEN e \ {p}
    ELSE e

\* Something changes an entry below the root while the event goroutine
\* runs; the watcher queues an event when the directory the entry lies in
\* is watched. A directory that goes away is no longer watched.
FsChange ==
    /\ watch.gpc \in {"select", "handler"}
    /\ watch.left > 0
    /\ \E p \in WatchPaths, op \in ChangeOps :
         /\ CanChange(watch.exists, p, op)
         /\ watch' = [watch EXCEPT
                        !.left = @ - 1,
                        !.exists = AfterChange(@, p, op),
                        !.watched = @ \cap AfterChange(watch.exists, p, op),
                        !.seen = @ \cap AfterChange(watch.exists, p, op),
                        !.queue = IF Parent(p) \in watch.watched
                                  THEN Append(@, [name |-> p, op |-> op])
                                  ELSE @]
    /\ UNCHANGED <<ctxDone, walk>>

\* The caller cancels the context handed to Watch.
WatchCancel ==
    /\ watch.mpc # "returned"
    /\ ~WatchCtxDone
    /\ ctxDone' = TRUE
    /\ UNCHANGED <<watch, walk>>

\* The deadline of context.WithTimeout(ctx, opts.Timeout) passes.
WatchTimeout ==
    /\ watch.mpc \in {"wait"}
    /\ watch.cfg.timeout
    /\ ~WatchCtxDone
    /\ watch' = [watch EXCEPT !.timedOut = TRUE]
    /\ UNCHANGED <<ctxDone, walk>>

\* The goroutine that called Watch.
WatchMain ==
    \/ WatchSetup
    \/ WatchDone
    \/ WatchJoin

\* The event goroutine.
WatchGoroutine ==
    \/ WatchRecv
    \/ WatchHandlerReturn
    \/ WatchGoExit

WatchNext ==
    \/ WatchMain
    \/ WatchGoroutine
    \/ FsChange
    \/ WatchCancel
    \/ WatchTimeout

WatchSpec == WatchInit /\ [][WatchNext]_vars

\* Both goroutines of Watch keep running and the handler returns; nothing
\* forces a change, a cancellation or a deadline.
WatchLiveSpec ==
    /\ WatchSpec
    /\ WF_vars(WatchMain)
    /\ WF_vars(WatchGoroutine)

\* ------------------------------------------------------------------------
\* The middleware chain of WalkWithOptions
\* ------------------------------------------------------------------------

\* The middleware functions that can be registered. Each one does its part
\* before the call, calls next once, does its part after the call and
\* returns what next returned.
Middlewares == {"A", "B"}

\* The lists WalkOptions.Middleware can hold.
Chains == UNION {[1..n -> Middlewares] : n \in 0..MaxChain}

\* A wrapped WalkFunc is written as the list of the middleware functions
\* around the user's walkFn, the outermost first: m(fn) is <<m>> \o fn.

\* A loop that runs through the list from its first element.
RECURSIVE WrapUpFrom(_, _, _)
WrapUpFrom(chain, i, fn) ==
    IF i > Len(chain) THEN fn ELSE WrapUpFrom(chain, i + 1, <<chain[i]>> \o fn)

ApplyMiddlewareForward(chain) == WrapUpFrom(chain, 1, <<>>)

\* for i := len(options.Middleware) - 1; i >= 0; i--:
\*     wrappedFn = options.Middleware[i](wrappedFn)
RECURSIVE WrapDownFrom(_, _, _)
WrapDownFrom(chain, i, fn) ==
    IF i = 0 THEN fn ELSE WrapDownFrom(chain, i - 1, <<chain[i]>> \o fn)

\* wrappedFn after the loop, starting from the user's walkFn.
ApplyMiddleware(chain) == WrapDownFrom(chain, Len(chain), <<>>)

\* WalkWithOptions is called with the middleware list chain.
ChainCalled(chain) ==
    [chain |-> chain, wrapped |-> <<>>, phase |-> "setup", depth |-> 0,
     err |-> "nil", runs |-> 0,
     \* history, read by the properties only
     trace |-> <<>>]   \* what ran during the last invocation, in order

\* A call of WalkWithOptions.
MiddlewareInit ==
    /\ fs = TreeFlat(0)
    /\ followLinks = FALSE
    /\ limit = 1
    /\ opts = Options("WalkWithOptions", "continue", {}, NoFilter, FALSE)
    /\ ctxDone = FALSE
    /\ FreshWalk
    /\ excludedDirs = {}
    /\ helper = NoHelper
    /\ watch = NoWatch
    /\ mw \in {ChainCalled(c) : c \in Chains}

\* What a step of the chain leaves alone.
others == <<ctxDone, engine, watch, helper>>

\* WalkWithOptions builds adaptedWalkFn.
ChainSetup ==
    /\ mw.phase = "setup"
    /\ mw' = [mw EXCEPT !.wrapped = ApplyMiddleware(mw.chain), !.phase = "idle"]
    /\ UNCHANGED others

\* The walk invokes adaptedWalkFn for an entry.
ChainCall ==
    /\ mw.phase = "idle"
    /\ mw.runs < MaxFiles
    /\ mw' = [mw EXCEPT !.phase = "down", !.depth = 0, !.err = "nil", !.trace = <<>>]
    /\ UNCHANGED others

\* The next middleware function does its part before the call of next.
ChainPre ==
    /\ mw.phase = "down"
    /\ mw.depth < Len(mw.wrapped)
    /\ mw' = [mw EXCEPT
                !.depth = @ + 1,
                !.trace = Append(@, [who |-> mw.wrapped[mw.depth + 1],
                                     part |-> "pre", got |-> "nil"])]
    /\ UNCHANGED others

\* The innermost next is the user's walkFn: it runs and returns.
ChainUser ==
    /\ mw.phase = "down"
    /\ mw.depth = Len(mw.wrapped)
    /\ \E ret \in {"nil", "SkipDir"} \cup CallbackErrors :
         mw' = [mw EXCEPT
                  !.phase = "up",
                  !.err = ret,
                  !.trace = Append(@, [who |-> "user", part |-> "call", got |-> ret])]
    /\ UNCHANGED others

\* next has returned err to a middleware function: it does its part after
\* the call and returns err.
ChainPost ==
    /\ mw.phase = "up"
    /\ mw.depth > 0
    /\ mw' = [mw EXCEPT
                !.depth = @ - 1,
                !.trace = Append(@, [who |-> mw.wrapped[mw.depth],
                                     part |-> "post", got |-> mw.err])]
    /\ UNCHANGED others

\* adaptedWalkFn returns to the walk.
ChainReturn ==
    /\ mw.phase = "up"
    /\ mw.depth = 0
    /\ mw' = [mw EXCEPT !.phase = "idle", !.runs = @ + 1]
    /\ UNCHANGED others

MiddlewareNext ==
    \/ ChainSetup
    \/ ChainCall
    \/ ChainPre
    \/ ChainUser
    \/ ChainPost
    \/ ChainReturn

MiddlewareSpec == MiddlewareInit /\ [][MiddlewareNext]_vars

\* ------------------------------------------------------------------------
\* resolveSymlink called from several goroutines
\* ------------------------------------------------------------------------

\* The goroutines that call resolveSymlink.
Callers == {1, 2}

\* What is left alone by a step that touches visitedSymlinks and the
\* callers only.
beside == <<fs, followLinks, limit, opts, ctxDone, pc, cur, todo, walkRet, tasks,
            closed, wpc, wtask, walkErrors, result, hist, excludedDirs, stats,
            snap, early, userCalls, passed, watch, mw>>

\* Callers 1 and 2 have the links in links[1] and links[2] to resolve, in
\* that order. second = "none": both are workers of one WalkLimitWithFilter
\* call. Otherwise caller 1 is the worker of a WalkLimitWithFilter call
\* that is running, and a second call (of WalkLimitWithFilter, with caller 2
\* as its worker, or of WalkLimitWithOptions, which resolves nothing) is
\* made while it runs.
Resolving(links, second) ==
    [fn |-> "resolveSymlink", second |-> second, begun |-> FALSE,
     links |-> links, left |-> links,
     pc |-> [c \in Callers |-> "idle"],
     out |-> [c \in Callers |-> <<>>]]

\* /T/l1 and /T/l2 of the tree with two links to one file.
Link1 == <<2>>

Link2 == <<3>>

\* Two workers of one call that resolve two links to one target, or the
\* same link; or two calls that each walk the two links with one worker.
ResolverCalls ==
    {Resolving(<<<<Link1>>, <<l>>>>, "none") : l \in {Link1, Link2}}
      \cup {Resolving(<<<<Link1, Link2>>, <<Link1, Link2>>>>, "WithFilter"),
            Resolving(<<<<Link1, Link2>>, <<>>>>, "WithOptions")}

ResolverInit ==
    /\ fs = TreeTwoLinks
    /\ followLinks = FALSE
    /\ limit = MaxLimit
    /\ opts = Options("WithFilter", "continue", {}, NoFilter, FALSE)
    /\ ctxDone = FALSE
    /\ FreshWalk
    /\ excludedDirs = {}
    /\ watch = NoWatch
    /\ mw = NoChain
    /\ helper \in ResolverCalls

\* The call caller c works for has been made.
CallMade(c) == c = 1 \/ helper.second = "none" \/ helper.begun

\* resolveSymlink returns verdict v to caller c.
Resolved(c, v) ==
    [helper EXCEPT !.pc[c] = "idle", !.left[c] = Tail(@), !.out[c] = Append(@, v)]

\* resolveSymlink up to isCyclicSymlink: Lstat, EvalSymlinks, Stat and
\* symlinkLock.RLock(), a lock other readers do not wait for.
ResolveBegin(c) ==
    /\ helper.pc[c] = "idle"
    /\ CallMade(c)
    /\ helper.left[c] # <<>>
    /\ helper' = [helper EXCEPT !.pc[c] = "load"]
    /\ UNCHANGED <<visitedSymlinks, beside>>

\* visitedSymlinks.Load(initialPath)
ResolveLoad(c) ==
    /\ helper.pc[c] = "load"
    /\ helper' = IF Head(helper.left[c]) \in visitedSymlinks
                 THEN Resolved(c, "cyclic")
                 ELSE [helper EXCEPT !.pc[c] = "range"]
    /\ UNCHANGED <<visitedSymlinks, beside>>

\* visitedSymlinks.Range: is realPath a key?
ResolveRange(c) ==
    /\ helper.pc[c] = "range"
    /\ helper' = IF StatPath(fs, Head(helper.left[c])) \in visitedSymlinks
                 THEN Resolved(c, "cyclic")
                 ELSE [helper EXCEPT !.pc[c] = "store"]
    /\ UNCHANGED beside
    /\ UNCHANGED visitedSymlinks

\* visitedSymlinks.Store(initialPath, struct{}{})
ResolveStoreInitial(c) ==
    /\ helper.pc[c] = "store"
    /\ visitedSymlinks' = visitedSymlinks \cup {Head(helper.left[c])}
    /\ helper' = [helper EXCEPT !.pc[c] = "store2"]
    /\ UNCHANGED beside

\* visitedSymlinks.Store(realPath, struct{}{}), and the return of
\* resolveSymlink with the target.
ResolveStoreReal(c) ==
    /\ helper.pc[c] = "store2"
    /\ visitedSymlinks' = visitedSymlinks \cup {StatPath(fs, Head(helper.left[c]))}
    /\ helper' = Resolved(c, "resolved")
    /\ UNCHANGED beside

\* symlinkLock.Lock() of WalkLimitWithFilter is granted when no caller
\* holds the read lock.
NoReaderInside == \A c \in Callers : helper.pc[c] = "idle"

\* The second call is made: WalkLimitWithFilter replaces visitedSymlinks by
\* an empty map under symlinkLock.Lock(), WalkLimitWithOptions without a
\* lock.
SecondCall ==
    /\ helper.second # "none"
    /\ ~helper.begun
    /\ helper.second = "WithFilter" => NoReaderInside
    /\ visitedSymlinks' = {}
    /\ helper' = [helper EXCEPT !.begun = TRUE]
    /\ UNCHANGED beside

Resolver(c) ==
    \/ ResolveBegin(c)
    \/ ResolveLoad(c)
    \/ ResolveRange(c)
    \/ ResolveStoreInitial(c)
    \/ ResolveStoreReal(c)

ResolverNext ==
    \/ \E c \in Callers : Resolver(c)
    \/ SecondCall

ResolverSpec == ResolverInit /\ [][ResolverNext]_vars

\* What one goroutine gets when it resolves the links of a list one after
\* the other, starting from the keys in visited, with nothing else running.
RECURSIVE ResolveAlone(_, _)
ResolveAlone(links, visited) ==
    IF links = <<>> THEN <<>>
    ELSE IF IsCyclicSymlink(visited, Head(links), StatPath(TreeTwoLinks, Head(links)))
    THEN <<"cyclic">> \o ResolveAlone(Tail(links), visited)
    ELSE <<"resolved">>
           \o ResolveAlone(Tail(links),
                           visited \cup {Head(links), StatPath(TreeTwoLinks, Head(links))})

\* ------------------------------------------------------------------------
\* matchFind: the time criteria of Find
\* ------------------------------------------------------------------------

\* The instant Find is called, in clock ticks.
CallTime == 4

\* The modification times of the files Find comes across.
ModTimes == 0..(CallTime - 1)

\* The durations OlderThan and NewerThan are set to (0: not set).
Durations == 0..3

\* A match that measures the age at the instant Find was called.
MatchTimeAtCall(now, mtime, older, newer) ==
    /\ older > 0 => CallTime - mtime > older
    /\ newer > 0 => CallTime - mtime < newer

\* The time constraints of matchFind for a file modified at mtime, when it
\* is evaluated at instant now: time.Since(msg.Time) is now - mtime.
MatchTime(now, mtime, older, newer) ==
    /\ older > 0 => now - mtime > older
    /\ newer > 0 => now - mtime < newer

\* Find was called at CallTime with OlderThan: older and NewerThan: newer,
\* and its walk comes across a file modified at mtime.
Matching(mtime, older, newer) ==
    [fn |-> "matchFind", now |-> CallTime, mtime |-> mtime,
     olderThan |-> older, newerThan |-> newer, verdict |-> "none"]

MatchInit ==
    /\ fs = TreeFlat(0)
    /\ followLinks = FALSE
    /\ limit = 1
    /\ opts = FindCall(FALSE, 0, 0)
    /\ ctxDone = FALSE
    /\ FreshWalk
    /\ excludedDirs = {}
    /\ watch = NoWatch
    /\ mw = NoChain
    /\ helper \in {Matching(m, o, n) : m \in ModTimes, o \in Durations, n \in Durations}

\* Time passes while the walk runs.
ClockTick ==
    /\ helper.verdict = "none"
    /\ helper.now < CallTime + MaxClock
    /\ helper' = [helper EXCEPT !.now = @ + 1]
    /\ UNCHANGED <<visitedSymlinks, beside>>

\* A worker reaches the file and Find's walkFn calls matchFind.
MatchCall ==
    /\ helper.verdict = "none"
    /\ helper' = [helper EXCEPT
                    !.verdict = IF MatchTime(helper.now, helper.mtime,
                                             helper.olderThan, helper.newerThan)
                                THEN "match" ELSE "no match"]
    /\ UNCHANGED <<visitedSymlinks, beside>>

MatchNext ==
    \/ ClockTick
    \/ MatchCall

MatchSpec == MatchInit /\ [][MatchNext]_vars

\* ------------------------------------------------------------------------
\* formatCommand
\* ------------------------------------------------------------------------

\* Strings are sequences of symbols. "b" and "s" stand for the words base
\* and size, so that <<"{", "b", "}">> is the placeholder {base}; "x" is
\* any other symbol, and <<"{", "x", "}">> a placeholder that is not
\* recognised.
Symbols == {"{", "}", "b", "s", "x"}

Strings(n) == UNION {[1..k -> Symbols] : k \in 0..n}

PathPlaceholder == <<"{", "}">>

BasePlaceholder == <<"{", "b", "}">>

SizePlaceholder == <<"{", "s", "}">>

\* s begins with old.
HasPrefix(s, old) == Len(s) >= Len(old) /\ SubSeq(s, 1, Len(old)) = old

\* strings.ReplaceAll(s, old, new) for a non-empty old: the non-overlapping
\* occurrences of old, found from the left, are replaced by new.
RECURSIVE ReplaceAll(_, _, _)
ReplaceAll(s, old, new) ==
    IF s = <<>> THEN <<>>
    ELSE IF HasPrefix(s, old)
    THEN new \o ReplaceAll(SubSeq(s, Len(old) + 1, Len(s)), old, new)
    ELSE <<Head(s)>> \o ReplaceAll(Tail(s), old, new)

\* formatCommand, as far as modelled: the replacements of {}, {base} and
\* {size}, one ReplaceAll after the other on the result of the one before.
FormatCommand(template, msg) ==
    ReplaceAll(ReplaceAll(ReplaceAll(template, PathPlaceholder, msg.path),
                          BasePlaceholder, msg.name),
               SizePlaceholder, msg.size)

\* One pass over the template from the left: a recognised placeholder is
\* replaced by its value, every other symbol is copied, and what was put in
\* is not looked at again.
RECURSIVE SinglePass(_, _)
SinglePass(s, msg) ==
    IF s = <<>> THEN <<>>
    ELSE IF HasPrefix(s, PathPlaceholder)
    THEN msg.path \o SinglePass(SubSeq(s, Len(PathPlaceholder) + 1, Len(s)), msg)
    ELSE IF HasPrefix(s, BasePlaceholder)
    THEN msg.name \o SinglePass(SubSeq(s, Len(BasePlaceholder) + 1, Len(s)), msg)
    ELSE IF HasPrefix(s, SizePlaceholder)
    THEN msg.size \o SinglePass(SubSeq(s, Len(SizePlaceholder) + 1, Len(s)), msg)
    ELSE <<Head(s)>> \o SinglePass(Tail(s), msg)

\* The FindMessage values: a file x of 7 bytes (the digit is written "x"),
\* or a file whose path or base name holds the text of a placeholder.
Messages ==
    {[path |-> p, name |-> n, size |-> <<"x">>] :
       p \in {<<"x">>, BasePlaceholder}, n \in {<<"x">>, SizePlaceholder}}

\* formatCommand is called with a template and a message.
Formatting(template, msg) ==
    [fn |-> "formatCommand", template |-> template, msg |-> msg,
     returned |-> FALSE, str |-> <<>>]

FormatInit ==
    /\ fs = TreeFlat(0)
    /\ followLinks = FALSE
    /\ limit = 1
    /\ opts = FindCall(FALSE, 0, 0)
    /\ ctxDone = FALSE
    /\ FreshWalk
    /\ excludedDirs = {}
    /\ watch = NoWatch
    /\ mw = NoChain
    /\ helper \in {Formatting(t, m) : t \in Strings(MaxLen), m \in Messages}

\* formatCommand runs and returns str.
Format ==
    /\ ~helper.returned
    /\ helper' = [helper EXCEPT
                    !.returned = TRUE,
                    !.str = FormatCommand(helper.template, helper.msg)]
    /\ UNCHANGED <<visitedSymlinks, beside>>

FormatNext == Format

FormatSpec == FormatInit /\ [][FormatNext]_vars

Enumerator ==
    \/ Start
    \/ EnumCheck
    \/ EnumDirBegin
    \/ EnumDirReturn
    \/ EnumSend
    \/ EnumSendCanceled
    \/ EnumWalked
    \/ EnumClose
    \/ EnumReturn

Worker(w) ==
    \/ WorkerRecv(w)
    \/ WorkerExit(w)
    \/ WorkerCheck(w)
    \/ WorkerBegin(w)
    \/ WorkerReturn(w)

Next ==
    \/ Enumerator
    \/ \E w \in Workers : Worker(w)
    \/ Cancel

Spec == Init /\ [][Next]_vars

\* A walk whose context is never cancelled (context.Background()).
Walking ==
    \/ Start
    \/ EnumCheck
    \/ EnumDirBegin
    \/ EnumDirReturn
    \/ EnumSend
    \/ EnumWalked
    \/ EnumClose
    \/ EnumReturn
    \/ \E w \in Workers : Worker(w)

\* WalkLimitWithOptions without a progress function.
OptionsSpec == OptionsInit /\ [][Walking]_vars

\* Find.
FindSpec == FindInit /\ [][Walking]_vars

\* WalkLimitWithOptions with depth limits, excluded directories or
\* SymlinkIgnore, and WalkLimitWithFilter with excluded directories.
OptionsFilterSpec == OptionsFilterInit /\ [][Walking]_vars

\* After a call of WalkLimitWithFilter has returned the process calls it
\* again on the same root: the call starts from fresh local state and
\* resets visitedSymlinks; the package-level excludedDirs is not touched.
CallAgain ==
    /\ pc = "done"
    /\ opts' \in RepeatCalls
    /\ UNCHANGED <<fs, followLinks, limit, ctxDone, watch, mw, helper, excludedDirs>>
    /\ visitedSymlinks' = {}
    /\ pc' = "start"
    /\ cur' = NoTask
    /\ todo' = <<>>
    /\ walkRet' = Nil
    /\ tasks' = <<>>
    /\ closed' = FALSE
    /\ wpc' = [w \in Workers |-> "off"]
    /\ wtask' = [w \in Workers |-> NoTask]
    /\ walkErrors' = <<>>
    /\ result' = NoResult
    /\ stats' = ZeroStats
    /\ snap' = ZeroStats
    /\ early' = [g \in Goroutines |-> "none"]
    /\ calls' = [p \in DOMAIN calls |-> 0]
    /\ userCalls' = [p \in DOMAIN calls |-> 0]
    /\ ended' = {}
    /\ skipped' = {}
    /\ failed' = {}
    /\ enqueued' = {}
    /\ discarded' = {}
    /\ startDone' = ctxDone
    /\ lateCalls' = 0
    /\ observed' = {}
    /\ closes' = 0
    /\ passed' = {}

RepeatNext ==
    \/ Walking
    \/ CallAgain

\* WalkLimitWithFilter called again and again in one process.
RepeatSpec == RepeatInit /\ [][RepeatNext]_vars

\* WalkLimitWithFilter.
FilterSpec == FilterInit /\ [][Walking]_vars

\* The walks that report progress: the ticker goroutine runs beside them.
ProgressNext ==
    \/ Walking
    \/ Tick

ProgressSpec == ProgressInit /\ [][ProgressNext]_vars

\* The walks that report progress, under a context that may be cancelled.
ProgressCancelNext ==
    \/ Next
    \/ Tick

ProgressCancelSpec == ProgressCancelInit /\ [][ProgressCancelNext]_vars

\* Every goroutine that can take a step eventually takes one; cancel() is
\* never forced.
LiveSpec ==
    /\ Spec
    /\ WF_vars(Enumerator)
    /\ \A w \in Workers : WF_vars(Worker(w))

TypeOK ==
    /\ fs \in AllTrees
    /\ limit \in -1..MaxLimit
    /\ entry \in {"WalkLimit", "WithProgress", "WithFilter", "WithOptions", "Find",
                   "Watch", "WalkWithOptions"}
    /\ \A c \in Counters : stats[c] >= snap[c]
    /\ pc \in {"start", "check", "dirCall", "dirRun", "send", "walked", "close",
               "wait", "done"}
    /\ \A w \in Workers : wpc[w] \in {"off", "recv", "check", "call", "run", "exit"}
    /\ Len(tasks) <= MaxLimit

\* ------------------------------------------------------------------------
\* Properties
\* ------------------------------------------------------------------------

\* The paths the history is kept for: every path of the tree.
Paths == DOMAIN calls

IsProperPrefix(d, p) == Len(d) < Len(p) /\ SubSeq(p, 1, Len(d)) = d

\* p lies below a directory whose walkFn invocation returned SkipDir.
Pruned(p) == \E d \in skipped : IsProperPrefix(d, p)

RootExists == <<>> \in DOMAIN fs

Delivered == {p \in Paths : calls[p] > 0}

\* The walk ran to its end without ever seeing a cancelled context.
Completed == pc = "done" /\ ~ctxDone /\ limit >= 1 /\ RootExists

\* C1: when the context is never cancelled and no walkFn invocation returns
\* SkipDir for a directory or an error, the call returns nil, and by then walkFn
\* has been invoked, and has returned, exactly once for the root and for every
\* entry below it and for no other path: directories on the enumerator,
\* every other entry through the tasks channel. For the empty root that is
\* one invocation.
C1_ExactlyOnce ==
    (Completed /\ skipped = {} /\ failed = {}) =>
        /\ result = Nil
        /\ \A p \in Paths :
             calls[p] = IF p \in Entries(fs, followLinks) THEN 1 ELSE 0
        /\ Entries(fs, followLinks) \subseteq ended
        /\ \A p \in Entries(fs, followLinks) :
             p \in enqueued <=> LstatKind(fs, p) # "dir"
        /\ fs = TreeFlat(0) => Cardinality(Delivered) = 1

\* C1 witness: WalkLimit over the nested tree with two workers has returned
\* nil after five invocations.
C1_Witness ==
    /\ Completed /\ skipped = {} /\ failed = {}
    /\ fs = TreeNested /\ ~followLinks /\ limit = 2
    /\ Cardinality(Delivered) = 5

\* C2: ancestor ordering, as claimed for both entry points: whenever walkFn
\* has been entered for an entry, the walkFn invocation for its parent has
\* already returned.
C2_AncestorOrdering ==
    \A p \in Paths :
        (calls[p] > 0 /\ p # <<>>) => Parent(p) \in ended

\* C3: no entry below a directory whose invocation returned SkipDir is ever
\* enqueued or delivered; when the walk completes without cancellation every
\* entry that is not below such a directory has been delivered exactly once;
\* SkipDir is never collected as an error, so the walk returns nil unless an
\* invocation returned an error.
C3_SkipDirLocality ==
    /\ \A p \in Paths : Pruned(p) => calls[p] = 0 /\ p \notin enqueued
    /\ \A i \in 1..Len(walkErrors) : walkErrors[i].base # "SkipDir"
    /\ Completed =>
         /\ \A p \in Entries(fs, followLinks) :
              ~Pruned(p) => calls[p] = 1 /\ p \in ended
         /\ failed = {} => result = Nil

\* C3 witness: /T/d1 returned SkipDir, /T/d1/c.go was left out, the sibling
\* /T/e.go after it was delivered, and the walk returned nil.
C3_Witness ==
    /\ Completed /\ fs = TreeNested
    /\ skipped = {<<2>>}
    /\ calls[<<2, 1>>] = 0 /\ calls[<<3>>] = 1 /\ calls[<<1>>] = 1
    /\ result = Nil

\* C4: termination. Under fair scheduling of the enumerator and the workers,
\* and whenever (if ever) the context is cancelled, the call returns; the
\* tasks channel is closed at most once, only after the enumeration has
\* ended, and at the return every worker has exited.
C4_Termination ==
    /\ <>(pc = "done")
    /\ [](closes <= 1)
    /\ [](closed => (closes = 1 /\ todo = <<>> /\ pc \in {"wait", "done"}))
    /\ [](pc = "done" /\ limit >= 1 => closed /\ WorkersExited)

\* C4 witness: the enumerator is blocked in its send on a full channel while
\* every worker is inside walkFn and the context is cancelled mid-walk.
C4_Witness ==
    /\ pc = "send" /\ Len(tasks) = limit /\ limit >= 1
    /\ \A w \in Workers : w <= limit => wpc[w] = "run"
    /\ ctxDone /\ ~startDone

\* C5: quiescence on return, for both entry points: when the call has
\* returned the tasks channel is empty, every worker has exited (so no walkFn
\* invocation is running or can begin), and every task ever enqueued was
\* either delivered to walkFn, which has returned, or discarded by a worker
\* that saw the cancellation.
C5_Quiescence ==
    pc = "done" =>
        /\ tasks = <<>>
        /\ \A w \in Workers : wpc[w] \in {"off", "exit"} /\ wtask[w] = NoTask
        /\ \A p \in enqueued :
             \/ calls[p] = 1 /\ p \in ended /\ p \notin discarded
             \/ calls[p] = 0 /\ p \in discarded /\ ctxDone
        /\ Delivered \subseteq ended

\* C5 witness: a walk has returned after one of its tasks was delivered and
\* another one discarded.
C5_Witness ==
    /\ pc = "done"
    /\ \E p \in enqueued : calls[p] = 1
    /\ discarded # {}

\* C6: cancellation bound. After the context is cancelled at most limit + 1
\* walkFn invocations begin; a worker that has seen the cancellation never
\* enters walkFn again; the enumerator, once it has seen the cancellation, has
\* left godirwalk.Walk and enqueues nothing.
C6_CancellationBound ==
    /\ lateCalls <= limit + 1
    /\ \A w \in Workers : w \in observed => wpc[w] \in {"recv", "check", "exit"}
    /\ 0 \in observed => pc \in {"walked", "close", "wait", "done"} /\ todo = <<>>

\* C6 witness: the bound is attained: after the cancellation both the single
\* worker and the enumerator entered walkFn.
C6_Witness ==
    /\ limit = 1 /\ lateCalls = 2
    /\ observed # {}

\* C7: when the context is already cancelled at the call (of a walk over an
\* existing root with limit >= 1), walkFn is never invoked and the call
\* returns context.Canceled itself.
C7_CancelledAtStart ==
    (startDone /\ limit >= 1 /\ RootExists) =>
        /\ Delivered = {}
        /\ enqueued = {}
        /\ pc = "done" => result = Canceled

\* C7 witness: WalkLimit over the nested tree, called with a cancelled
\* context, has returned.
C7_Witness ==
    /\ startDone /\ pc = "done" /\ fs = TreeNested /\ limit = 2
    /\ result = Canceled

\* C8: cancellation always wins, as claimed: when the enumerator has wound
\* the walk down on seeing the cancelled context, the call returns the
\* cancellation error, whatever errors the callbacks returned before.
C8_CancellationWins ==
    (pc = "done" /\ 0 \in observed) => ErrorsIs(result, Canceled)

\* C9: as claimed: when every collected error is a cancellation error, the
\* call returns an error for which errors.Is(err, context.Canceled) holds,
\* however many were collected.
C9_OnlyCancellationErrors ==
    (pc = "done" /\ walkErrors # <<>>
       /\ \A i \in 1..Len(walkErrors) : ErrorsIs(walkErrors[i], Canceled))
    => ErrorsIs(result, Canceled)

\* C10: as claimed: when the callbacks of k >= 1 entries return the same
\* error value E and nothing else fails, the call returns an error for which
\* errors.Is(err, E) holds.
C10_SameErrorCollapses ==
    \A e \in CallbackErrors :
        (pc = "done" /\ walkErrors # <<>>
           /\ \A i \in 1..Len(walkErrors) :
                walkErrors[i].wrapped /\ walkErrors[i].base = e)
        => ErrorsIs(result, Plain(e))

\* C11: as claimed: under the error policy stop of WalkLimitWithOptions, once
\* a walkFn invocation has returned a non-SkipDir error nothing more is
\* enqueued and no further walkFn invocation begins.
C11_StopAtFirstError ==
    [][(entry = "WithOptions" /\ errorHandling = "stop" /\ failed # {})
         => (enqueued' = enqueued /\ calls' = calls)]_vars

\* No component of p, p included, is an entry on which Lstat fails.
Intact(p) == \A i \in 0..Len(p) : SubSeq(p, 1, i) \notin broken

\* C12: as claimed: under the error policies continue and skip of
\* WalkLimitWithOptions, when Lstat fails on one entry and no walkFn
\* invocation returns SkipDir or an error, the walk still delivers every
\* other entry of the tree, and under skip it returns nil.
C12_EntryErrorDoesNotStop ==
    (/\ entry = "WithOptions" /\ errorHandling \in {"continue", "skip"}
     /\ broken # {} /\ pc = "done" /\ failed = {} /\ skipped = {})
    => /\ \A p \in Entries(fs, followLinks) : Intact(p) => calls[p] = 1
       /\ errorHandling = "skip" => result = Nil

\* C13: WalkLimit with a limit below 1 returns the configuration error in its
\* first step: no worker is started, nothing is enumerated or enqueued, and
\* walkFn is never invoked.
C13_LimitBelowOne ==
    limit < 1 =>
        /\ pc \in {"start", "done"}
        /\ pc = "done" => result = LimitError
        /\ \A w \in Workers : wpc[w] = "off"
        /\ cur = NoTask /\ todo = <<>> /\ tasks = <<>> /\ enqueued = {}
        /\ \A p \in Paths : calls[p] = 0 /\ userCalls[p] = 0

\* C13 witness: WalkLimit over the nested tree with limit 0 has returned the
\* configuration error.
C13_Witness ==
    /\ limit = 0 /\ fs = TreeNested
    /\ pc = "done" /\ result = LimitError

\* The workers that are inside walkFn.
Running == {w \in Workers : wpc[w] = "run"}

\* C14: concurrency limit. In every state of a walk with limit N >= 1 at most
\* N walkFn invocations for non-directory entries are running (they run on
\* the workers only, of which N were started), and the tasks channel holds
\* at most N tasks.
C14_ConcurrencyLimit ==
    limit >= 1 =>
        /\ Cardinality(Running) <= limit
        /\ Len(tasks) <= limit
        /\ \A w \in Workers : w > limit => wpc[w] = "off"
        /\ pc = "dirRun" => LstatKind(fs, cur) = "dir"
        /\ \A w \in Running : LstatKind(fs, wtask[w]) # "dir"

\* C14 witness: with limit 2 both workers are inside walkFn while a third
\* task waits in the channel.
C14_Witness ==
    /\ limit = 2
    /\ Running = {1, 2}
    /\ Len(tasks) = 1

\* C15: as claimed: in one WalkLimitWithFilter walk the user's walkFn is
\* invoked at most once per path.
C15_NoDoubleDelivery ==
    entry = "WithFilter" => \A p \in Paths : userCalls[p] <= 1

\* C16: as claimed: every entry WalkLimitWithFilter hands to the user's
\* walkFn, directories included, satisfies every clause of the filter.
C16_FilterSoundness ==
    entry = "WithFilter" =>
        \A p \in DOMAIN fs : userCalls[p] > 0 => FilePassesFilter(fs[p], filter)

\* The link at p points to the directory it lies in or to an ancestor of it.
ClosesCycle(p) ==
    /\ LstatKind(fs, p) = "link"
    /\ \E i \in 0..Len(p) : SubSeq(p, 1, i) = StatPath(fs, p)

\* C17: as claimed: when a WalkLimitWithFilter walk has returned, every entry
\* that was not handed to the user's walkFn and does not lie below a
\* directory that returned SkipDir fails a clause of the filter, or is a
\* link that closes a cycle.
C17_FilterCompleteness ==
    (entry = "WithFilter" /\ pc = "done") =>
        \A p \in Entries(fs, followLinks) :
            (p \notin passed /\ ~Pruned(p)) =>
                \/ ~FilePassesFilter(fs[StatPath(fs, p)], filter)
                \/ ClosesCycle(p)

\* C18: as claimed: a WalkLimitWithOptions walk that follows links never
\* visits an entry through a link that closes a cycle.
C18_NoRewalk ==
    (entry = "WithOptions" /\ followLinks) =>
        \A p \in Paths :
            calls[p] > 0 =>
                \A i \in 0..(Len(p) - 1) : ~ClosesCycle(SubSeq(p, 1, i))

\* C19: counter monotonicity. No step of a walk that reports progress lowers
\* a counter, and no Stats copy handed to the progress function shows a
\* counter below the copy handed before it.
C19_CounterMonotonicity ==
    [][\A c \in Counters : stats'[c] >= stats[c] /\ snap'[c] >= snap[c]]_vars

\* C19 witness: the ticker handed over a copy after the first file was
\* counted, and the counters have advanced since.
C19_Witness ==
    /\ Reports /\ pc # "done"
    /\ snap.files >= 1
    /\ stats.files > snap.files /\ stats.bytes > snap.bytes

\* The sum of f[x] * g[x] over the paths x in S.
RECURSIVE SumOver(_, _, _)
SumOver(S, f, g) ==
    IF S = {} THEN 0
    ELSE LET x == CHOOSE y \in S : TRUE
         IN  f[x] * g[x] + SumOver(S \ {x}, f, g)

One == [p \in Paths |-> 1]

SizeOf == [p \in Paths |-> IF p \in DOMAIN fs THEN fs[p].size ELSE 0]

NonDirs == {p \in DOMAIN fs : fs[p].kind # "dir"}

Dirs == {p \in DOMAIN fs : fs[p].kind = "dir"}

\* C20: progress totals. When WalkLimitWithProgress has returned, the Stats
\* copy handed over last counts the invocations of the user's walkFn for
\* non-directories as files, those for directories as dirs, and the sizes of
\* the non-directories delivered as bytes; for /T/a.txt (10), /T/b.go (20),
\* /T/d1/c.go (30) without SkipDir that is files = 3, bytes = 60, dirs = 2.
C20_ProgressTotals ==
    (entry = "WithProgress" /\ pc = "done" /\ ~ctxDone /\ limit >= 1) =>
        /\ snap.files = SumOver(NonDirs, userCalls, One)
        /\ snap.dirs = SumOver(Dirs, userCalls, One)
        /\ snap.bytes = SumOver(NonDirs, userCalls, SizeOf)
        /\ (fs = TreeSized /\ skipped = {}) =>
             snap.files = 3 /\ snap.bytes = 60 /\ snap.dirs = 2

\* C20 witness: WalkLimitWithProgress with two workers has returned and the
\* last copy shows the totals of the sized tree.
C20_Witness ==
    /\ entry = "WithProgress" /\ pc = "done" /\ limit = 2
    /\ fs = TreeSized /\ skipped = {}
    /\ snap.files = 3 /\ snap.bytes = 60 /\ snap.dirs = 2

\* C21: final progress snapshot. On every exit path of WalkLimitWithProgress
\* and of WalkLimitWithOptions with a progress function (completion, the
\* configuration error, a returned error, cancellation), when the call has
\* returned no walkFn invocation is running, every invocation begun has
\* returned, and the Stats copy handed to the progress function last holds
\* the final values of the counters.
C21_FinalSnapshot ==
    (Reports /\ pc = "done") =>
        /\ snap = stats
        /\ Delivered \subseteq ended
        /\ \A w \in Workers : wpc[w] \in {"off", "exit"}
        /\ \A g \in Goroutines : early[g] = "none"

\* C21 witness: a walk that was cancelled after it had counted a file has
\* returned the cancellation error, and the last copy shows that file.
C21_Witness ==
    /\ Reports /\ pc = "done"
    /\ ctxDone /\ ~startDone /\ result = Canceled
    /\ stats.files >= 1 /\ snap = stats

\* q comes before p in godirwalk's order: a directory before its entries,
\* the entries of a directory sorted by name.
DfsBefore(q, p) ==
    \/ IsProperPrefix(q, p)
    \/ \E i \in 1..Len(q) :
         /\ i <= Len(p)
         /\ SubSeq(q, 1, i - 1) = SubSeq(p, 1, i - 1)
         /\ q[i] < p[i]

\* C22: as claimed: with limit 1 and no cancellation the walkFn invocations
\* begin in the depth-first order of the tree on every run: whenever the
\* invocation for an entry has begun, the invocations for all entries before
\* it in that order, those below a skipped directory aside, have begun.
C22_DeterministicOrder ==
    (limit = 1 /\ ~ctxDone) =>
        \A p \in Entries(fs, followLinks), q \in Entries(fs, followLinks) :
            (calls[p] > 0 /\ DfsBefore(q, p) /\ ~Pruned(q)) => calls[q] > 0

\* With limit 1 the invocations of a run can also begin in depth-first order:
\* the file /T/a.txt before the directory /T/d1 that follows it.
C22_DepthFirstRun ==
    /\ limit = 1 /\ ~ctxDone /\ fs = TreeNested
    /\ calls[<<1>>] > 0 /\ calls[<<2>>] = 0

\* C23: a walk (with a valid limit) over a root that does not exist never
\* reaches the godirwalk Callback: nothing is enqueued, no worker receives a
\* task and walkFn is never invoked; the call returns the error of
\* godirwalk.Walk itself, the only error collected, and not an aggregate.
C23_MissingRoot ==
    (~RootExists /\ limit >= 1) =>
        /\ pc \in {"start", "walked", "close", "wait", "done"}
        /\ \A w \in Workers : wpc[w] \in {"off", "recv", "exit"}
        /\ tasks = <<>> /\ enqueued = {} /\ lateCalls = 0
        /\ \A g \in Goroutines : early[g] = "none"
        /\ stats = ZeroStats
        /\ pc = "done" =>
             /\ walkErrors = <<RootError>>
             /\ result = RootError
             /\ result.base # "multiple errors" /\ result.list = <<>>

\* C23 witness: WalkLimit with two workers over a missing root has returned
\* the enumeration error.
C23_Witness ==
    /\ ~RootExists /\ limit = 2 /\ ~ctxDone
    /\ pc = "done" /\ result = RootError

HiddenBelow(p) == \E i \in 1..Len(p) : p[i] = HiddenName

\* p lies in a directory that is hidden or lies below a hidden one.
InHidden(p) == p # <<>> /\ HiddenBelow(Parent(p))

\* C24: hidden-file policy of Find. Without IncludeHidden the handler is
\* never invoked for an entry whose name begins with a dot, a hidden
\* directory's walkFn invocation returns SkipDir, and nothing inside a hidden
\* directory is enqueued or reaches walkFn. With IncludeHidden, when Find has
\* returned, the handler was invoked exactly once for every file, hidden
\* ones and those inside hidden directories included, that matches the
\* other criteria and does not lie below a directory pruned for its depth.
C24_HiddenPolicy ==
    entry = "Find" =>
        /\ ~includeHidden =>
             \A p \in Paths :
                /\ HiddenBelow(p) => userCalls[p] = 0
                /\ (IsHidden(p) /\ fs[p].kind = "dir" /\ p \in ended) => p \in skipped
                /\ InHidden(p) => calls[p] = 0 /\ p \notin enqueued
        /\ (includeHidden /\ pc = "done") =>
             \A p \in Paths :
                (fs[p].kind # "dir" /\ MatchFind(fs[p]) /\ ~Pruned(p))
                    => userCalls[p] = 1

\* C24 witness: Find without IncludeHidden has returned: /T/.git was pruned,
\* /T/.git/x.txt never reached walkFn, the handler was not invoked for
\* /T/d1/.h.txt and was invoked for its sibling /T/d1/c.go.
C24_Witness ==
    /\ entry = "Find" /\ ~includeHidden /\ pc = "done"
    /\ <<HiddenName>> \in skipped /\ calls[<<HiddenName, 1>>] = 0
    /\ calls[<<2, HiddenName>>] = 1 /\ userCalls[<<2, HiddenName>>] = 0
    /\ userCalls[<<2, 1>>] = 1

\* C25: as claimed: Find never invokes the handler for a file that lies more
\* than MaxDepth directory levels below the root (a file directly in the
\* root lies 0 levels below it), MaxDepth = 0 included.
C25_MaxDepth ==
    entry = "Find" =>
        \A p \in Paths : userCalls[p] > 0 => Len(p) - 1 <= maxDepth

\* For MaxDepth >= 1 the depth limit holds, and nothing below a directory
\* that lies deeper than MaxDepth reaches walkFn.
C25_PositiveDepth ==
    (entry = "Find" /\ maxDepth >= 1) =>
        \A p \in Paths :
            /\ userCalls[p] > 0 => Len(p) - 1 <= maxDepth
            /\ Len(p) - 1 > maxDepth => calls[p] = 0

\* The event kinds Watch was asked for.
Requested == IF watch.cfg.events = {} THEN WatchEvents ELSE watch.cfg.events

\* C26: Watch filtering. Every message handed to the handler carries an
\* event kind that was asked for (any of the five when none was named) and
\* that the event has; its base name matches Pattern when one is set, does
\* not match IgnorePattern when one is set, and does not begin with a dot
\* unless IncludeHidden.
C26_WatchFiltering ==
    entry = "Watch" =>
        \A m \in watch.handled :
            /\ m.kind \in Requested
            /\ OpOf(m.kind) \in m.op
            /\ watch.cfg.pattern => MatchesPattern(m.path)
            /\ watch.cfg.ignore => ~MatchesIgnore(m.path)
            /\ ~watch.cfg.includeHidden => ~IsHidden(m.path)

\* C26 witness: Watch was asked for modify events on *.go; /W/sub was
\* created and /W/a.go written, and the handler got the one message for
\* /W/a.go.
C26_Witness ==
    /\ entry = "Watch"
    /\ watch.cfg.events = {"modify"} /\ watch.cfg.pattern
    /\ watch.left = 0 /\ watch.queue = <<>> /\ <<2>> \in watch.exists
    /\ watch.handled = {[path |-> <<1>>, kind |-> "modify", op |-> {"Write"}]}

\* C27: as claimed: in recursive mode, for every requested event set, a
\* directory whose Create event the event goroutine has received is in the
\* watcher (as long as the directory is there).
C27_NewDirsWatched ==
    (entry = "Watch" /\ watch.cfg.recursive) =>
        \A d \in watch.seen : d \in watch.watched

\* When create is among the requested events (or none is named), a directory
\* whose Create event was received is in the watcher.
C27_WhenCreateRequested ==
    (entry = "Watch" /\ watch.cfg.recursive /\ "create" \in Requested) =>
        \A d \in watch.seen : d \in watch.watched

C29_MiddlewareOrder ==
    (entry = "WalkWithOptions" /\ mw.phase = "idle" /\ mw.runs >= 1) =>
        LET n == Len(mw.chain)
            t == mw.trace
        IN  /\ Len(t) = 2 * n + 1
            /\ \A i \in 1..n :
                 t[i] = [who |-> mw.chain[i], part |-> "pre", got |-> "nil"]
            /\ t[n + 1] = [who |-> "user", part |-> "call", got |-> mw.err]
            /\ \A i \in 1..n :
                 t[n + 1 + i] = [who |-> mw.chain[n + 1 - i], part |-> "post",
                                 got |-> mw.err]

\* C29 witness: with A registered before B an invocation whose user walkFn
\* returned E1 has returned: A, B, the user's walkFn, B, A.
C29_Witness ==
    /\ entry = "WalkWithOptions" /\ mw.phase = "idle" /\ mw.runs = 1
    /\ mw.chain = <<"A", "B">> /\ mw.err = "E1"
    /\ mw.trace = << [who |-> "A", part |-> "pre", got |-> "nil"],
                     [who |-> "B", part |-> "pre", got |-> "nil"],
                     [who |-> "user", part |-> "call", got |-> "E1"],
                     [who |-> "B", part |-> "post", got |-> "E1"],
                     [who |-> "A", part |-> "post", got |-> "E1"] >>

\* C37: in WalkLimitWithProgress a SkipDir returned by the user's walkFn is
\* not counted as an error: when the walk has returned and no invocation
\* ended with an error other than SkipDir, the error counter is 0.
C37_SkipDirNotCounted ==
    (entry = "WithProgress" /\ pc = "done" /\ failed = {}) => stats.errors = 0

\* p lies below a directory Find prunes for its depth.
DepthPruned(p) == maxDepth > 0 /\ Len(p) - 1 > maxDepth

\* C40: as claimed: the hidden-file policy of Find does not apply to the
\* root. Without IncludeHidden, when Find has returned, the handler was
\* invoked once for every matching file that is not hidden, does not lie
\* in a hidden directory below the root and was not pruned for its depth,
\* whatever the base name of the root is.
C40_RootNotHidden ==
    (entry = "Find" /\ ~includeHidden /\ pc = "done") =>
        \A p \in Paths :
            (fs[p].kind # "dir" /\ ~HiddenBelow(p) /\ MatchFind(fs[p])
               /\ ~DepthPruned(p))
                => userCalls[p] = 1

\* Under a root whose base name does not begin with a dot every such file
\* is delivered.
C40_VisibleRoot ==
    (entry = "Find" /\ ~includeHidden /\ ~rootHidden /\ pc = "done") =>
        \A p \in Paths :
            (fs[p].kind # "dir" /\ ~HiddenBelow(p) /\ MatchFind(fs[p])
               /\ ~DepthPruned(p))
                => userCalls[p] = 1

\* The number of levels p lies below the root: the root at depth 0, a child
\* one deeper than its parent.
Depth(p) == Len(p)

\* The entries the user's walkFn was invoked for.
Handed == {p \in Paths : userCalls[p] > 0}

\* C31: as claimed: depth filtering in WalkLimitWithOptions. The user's
\* walkFn is invoked only for entries at depth MinDepth or deeper and, when
\* MaxDepth > 0, at depth MaxDepth or less; the walkFn invocation for a
\* directory deeper than MaxDepth returns SkipDir; the invocation for a
\* directory shallower than MinDepth does not, so that its children are
\* visited; and files processed and dirs processed count exactly the
\* entries handed to the user's walkFn.
C31_DepthFiltering ==
    (entry = "WithOptions" /\ fs = TreeDeep) =>
        /\ \A p \in Handed :
             /\ filter.minDepth <= Depth(p)
             /\ filter.maxDepth > 0 => Depth(p) <= filter.maxDepth
        /\ \A p \in ended :
             /\ (fs[p].kind = "dir" /\ filter.maxDepth > 0
                   /\ Depth(p) > filter.maxDepth) => p \in skipped
             /\ (fs[p].kind = "dir" /\ Depth(p) < filter.minDepth)
                   => p \notin skipped
        /\ stats.files = Cardinality({p \in Handed : fs[p].kind # "dir"})
        /\ stats.dirs = Cardinality({p \in Handed : fs[p].kind = "dir"})

\* Under a named root the depth filtering is as claimed.
C31_NamedRoot ==
    (entry = "WithOptions" /\ fs = TreeDeep /\ opts.root = "T") => C31_DepthFiltering

\* p, or a directory above it, has a name that matches an ExcludeDir pattern.
Excluded(p) == \E i \in 1..Len(p) : p[i] \in filter.excludeDir

\* C32: excluded directories in WalkLimitWithFilter and
\* WalkLimitWithOptions: the user's walkFn is never invoked for a directory
\* whose name matches an ExcludeDir pattern nor for anything below such a
\* directory.
C32_ExcludedDirs ==
    entry \in {"WithFilter", "WithOptions"} =>
        \A p \in Paths : Excluded(p) => userCalls[p] = 0

\* C32 witness: WalkLimitWithOptions with MinDepth 2 and /T/.x excluded has
\* returned: the file /T/.x/f.txt reached the wrapper, which found its
\* parent excluded and did not hand it on, while /T/d1/d2 was handed on.
C32_Witness ==
    /\ entry = "WithOptions" /\ pc = "done" /\ fs = TreeDeep
    /\ filter.excludeDir = {HiddenName} /\ filter.minDepth = 2
    /\ calls[<<HiddenName, 1>>] = 1 /\ userCalls[<<HiddenName, 1>>] = 0
    /\ userCalls[<<1, 1>>] = 1

\* C36: as claimed: with SymlinkIgnore the user's walkFn of
\* WalkLimitWithOptions is never invoked for a symbolic link, and nothing
\* reached through a link is visited.
C36_SymlinkIgnore ==
    (entry = "WithOptions" /\ ~followLinks /\ fs = TreeLink) =>
        \A p \in Paths :
            /\ fs[LstatPath(fs, p)].kind = "link" => userCalls[p] = 0
            /\ (\E i \in 1..(Len(p) - 1) : fs[LstatPath(fs, SubSeq(p, 1, i))].kind = "link")
                  => calls[p] = 0

\* Nothing reached through a link is visited with SymlinkIgnore.
C36_TargetNotTraversed ==
    (entry = "WithOptions" /\ ~followLinks /\ fs = TreeLink) =>
        \A p \in Paths :
            (\E i \in 1..(Len(p) - 1) : fs[LstatPath(fs, SubSeq(p, 1, i))].kind = "link")
                => calls[p] = 0

\* C33: as claimed: the exclusion decisions of a traversal depend only on
\* that traversal's ExcludeDir list. In a WalkLimitWithFilter call without
\* any other filter, a wrapper invocation that returned without calling the
\* user's walkFn was for an entry that is excluded under the call's own
\* list: a directory whose name or an ancestor's name matches, or a file in
\* such a directory.
C33_CacheReset ==
    entry = "WithFilter" =>
        \A p \in ended :
            userCalls[p] = 0 => MatchesExclude(SkipDirArg(p, fs[p]), filter)

\* Caller c has resolved every link it had.
Finished(c) == helper.pc[c] = "idle" /\ helper.left[c] = <<>>

\* C34: as claimed: two traversals that run at the same time do not
\* interfere through the visited-set. When a traversal's worker has resolved
\* its links, its verdicts are those it gets when the traversal runs alone.
C34_NoInterference ==
    (helper.fn = "resolveSymlink" /\ helper.second # "none") =>
        \A c \in Callers :
            Finished(c) => helper.out[c] = ResolveAlone(helper.links[c], {})

\* C35: as claimed: the check-then-insert of the resolver is atomic. When
\* two workers of one traversal have each resolved a link, and the two links
\* have the same target, exactly one got the target and the other was told
\* the link is cyclic.
C35_FirstWriterWins ==
    (helper.fn = "resolveSymlink" /\ helper.second = "none"
       /\ Finished(1) /\ Finished(2)) =>
        Cardinality({c \in Callers : helper.out[c] = <<"resolved">>}) = 1

\* Two workers never both end up told that the link is cyclic: the first
\* store is preceded by a miss of its caller.
C35_AtLeastOne ==
    (helper.fn = "resolveSymlink" /\ helper.second = "none"
       /\ Finished(1) /\ Finished(2)) =>
        Cardinality({c \in Callers : helper.out[c] = <<"resolved">>}) >= 1

\* C38: as claimed: Find measures OlderThan and NewerThan against the
\* instant it was called. The verdict matchFind gives for a file is the one
\* the file's age at the call of Find gives, whenever during the walk the
\* file is evaluated.
C38_AgainstCallTime ==
    (helper.fn = "matchFind" /\ helper.verdict # "none") =>
        (helper.verdict = "match"
           <=> MatchTimeAtCall(helper.now, helper.mtime, helper.olderThan,
                               helper.newerThan))

\* The verdict is the one the file's age at the instant of the evaluation
\* gives.
C38_AgainstEvaluationTime ==
    (helper.fn = "matchFind" /\ helper.verdict # "none") =>
        (helper.verdict = "match"
           <=> MatchTime(helper.now, helper.mtime, helper.olderThan,
                         helper.newerThan))

\* s holds a recognised placeholder.
RECURSIVE HasPlaceholder(_)
HasPlaceholder(s) ==
    /\ s # <<>>
    /\ \/ HasPrefix(s, PathPlaceholder)
       \/ HasPrefix(s, BasePlaceholder)
       \/ HasPrefix(s, SizePlaceholder)
       \/ HasPlaceholder(Tail(s))

\* C39: as claimed: template formatting is a single pass over the
\* template. What formatCommand returns is the template with each
\* recognised placeholder replaced by the entry's value and everything else,
\* the text of the values included, left as it is.
C39_SinglePass ==
    (helper.fn = "formatCommand" /\ helper.returned) =>
        helper.str = SinglePass(helper.template, helper.msg)

\* A template without a recognised placeholder is returned unchanged, and
\* for a message whose values hold no placeholder text the result is that
\* of a single pass.
C39_PlainValues ==
    (helper.fn = "formatCommand" /\ helper.returned) =>
        /\ ~HasPlaceholder(helper.template) => helper.str = helper.template
        /\ (~HasPlaceholder(helper.msg.path) /\ ~HasPlaceholder(helper.msg.name))
              => helper.str = SinglePass(helper.template, helper.msg)

====
